---- MODULE Spec2Model ----
(***************************************************************************)
(* The Katzenpost provider backend (src/provider.go): the work queue, the  *)
(* single worker goroutine, halt, authenticateClient and newProvider,      *)
(* together with the user database (src/userdb/boltuserdb/boltuserdb.go)   *)
(* and the spool interface (src/unnamed/part_003) it uses.                 *)
(*                                                                         *)
(* Goroutines are modelled by program counters.  An unrecovered Go panic   *)
(* runs the panicking goroutine's deferred calls and then ends the whole   *)
(* process; the other goroutines keep running until the runtime has        *)
(* exited, so a panic is recorded in `panics` and the exit is the separate *)
(* step ProcessExit.                                                       *)
(***************************************************************************)
EXTENDS Integers, Sequences, FiniteSets, TLC

VARIABLES
    ctor,       \* newProvider: "start", "failed", "panicked", "running"
    haltCh,     \* p.haltCh: "unset", "open", "closed"
    wg,         \* the embedded sync.WaitGroup's counter
    chQ,        \* p.ch: ids of the packets buffered in the InfiniteChannel
    chClosed,   \* p.ch.Close() has been called
    pkts,       \* every packet handed to onPacket and enqueued, by id
    late,       \* ids of the packets enqueued after haltCh was closed
    userDB,     \* p.userDB: "unset", "open", "closed" (closed, field still set), "nil"
    users,      \* the `users` bucket: username -> public key
    spool,      \* p.spool: "unset", "open", "closed", "nil"
    spoolQ,     \* the spool's content: user -> sequence of entries
    sched,      \* the packets handed to p.s.scheduler.onPacket
    workerPc,   \* worker: "none", "select", "recipient", "store", "ack", "send",
                \* "disposeDrop", "dispose", "panicked"
    pkt,        \* worker's local `pkt`: a packet id, or NoPacket (nil)
    disposed,   \* id -> number of pkt.dispose() calls
    path,       \* id -> the dispatch path the worker took for it
    haltPc,     \* halt caller -> position in halt()
    authPc,     \* authenticateClient caller -> "idle", "called", "returned", "panicked"
    authRes,    \* caller -> the value authenticateClient returned
    authSaw,    \* caller -> the state of p.userDB when IsValid was invoked on it
    panics,     \* the goroutines that have panicked
    exited,     \* the process has exited after a panic
    calls,      \* the calls the worker made on the spool, in order
    store,      \* the bolt file: its buckets and the persisted version value
    dbRes,      \* the last call made on the user database and what it returned
    lastAdd,    \* username -> the key of the most recent successful Add
    cmp,        \* one run of subtle.ConstantTimeCompare: operands, position, result
    got,        \* the last Spool.Get call and what it returned
    keyFile,    \* key name -> the content of its private key file, or Absent
    nodeKey,    \* key name -> s.identityKey / s.linkKey
    keyRes,     \* key name -> what initIdentity / initLink returned
    srv         \* Server.halt: its position and the components halted so far

vars == <<ctor, haltCh, wg, chQ, chClosed, pkts, late, userDB, users, spool,
          spoolQ, sched, workerPc, pkt, disposed, path, haltPc, authPc,
          authRes, authSaw, panics, exited, calls, store, dbRes, lastAdd,
          cmp, got, keyFile, nodeKey, keyRes, srv>>

\* the state of the user database beside the `users` bucket's content
dbVars == <<store, dbRes, lastAdd>>

\* the key comparison, the spool reader, the node keys and the server's halt
otherVars == <<cmp, got, keyFile, nodeKey, keyRes, srv>>

(***************************************************************************)
(* Bounds of the model.  The widths stand in for the protocol's (64-byte    *)
(* recipients and usernames, a SURB of several hundred bytes).             *)
(***************************************************************************)
RecipientWidth == 2
SURBLength == 1
MaxCtLen == 1
MaxUsernameSize == 2
MaxDelay == 2
MaxPackets == 2
NumHaltCallers == 2
NumAuthCallers == 1
MaxSpool == 2
MaxFileItems == 2
MaxListeners == 2
MaxShutdownCalls == 2
KeySize == 2

\* Program constants of onToUser.
SphinxPlaintextHeaderLength == 2
flagsPadding == 0
flagsSURB == 1
reserved == 0
hdrLength == SphinxPlaintextHeaderLength + SURBLength

NoPacket == 0
NilBytes == <<-1>>

\* The byte values of the model: the two valid flags and one other value.
Bytes == {flagsPadding, flagsSURB, flagsSURB + 1}
NameBytes == {0, 1}
HaltCallers == 1..NumHaltCallers
AuthCallers == 1..NumAuthCallers
PacketIds == 1..MaxPackets

SeqsUpTo(S, n) == UNION {[1..k -> S] : k \in 0..n}

(***************************************************************************)
(* Pure helpers.                                                           *)
(***************************************************************************)
\* a recipient field used as it is, NUL padding included
TrimRight_None(b) == b

\* bytes.TrimRight(b, "\x00")
RECURSIVE TrimRight(_)
TrimRight(b) ==
    IF Len(b) > 0 /\ b[Len(b)] = 0 THEN TrimRight(SubSeq(b, 1, Len(b) - 1)) ELSE b

\* a slice that keeps the bytes before `from`
SliceFrom_Whole(b, from) == b

\* b[from:] of a Go slice (from is 0-based)
SliceFrom(b, from) == SubSeq(b, from + 1, Len(b))

\* b[from:to] of a Go slice
Slice(b, from, to) == SubSeq(b, from + 1, to)

\* subtle.ConstantTimeCompare: 1 iff equal length and equal content
ConstantTimeCompare(x, y) == IF Len(x) = Len(y) /\ x = y THEN 1 ELSE 0

\* boltUserDB.IsValid on an open database with `users` bucket db
IsValid(db, u, k) ==
    IF u = NilBytes \/ Len(u) > MaxUsernameSize \/ k = NilBytes
    THEN FALSE
    ELSE IF u \in DOMAIN db THEN ConstantTimeCompare(db[u], k) = 1 ELSE FALSE

\* UserDB.Exists: a pure lookup of the username
Exists(db, u) == u \in DOMAIN db

(***************************************************************************)
(* The bolt file behind the user database.  st.meta and st.usersBkt say    *)
(* whether the `metadata` and `users` buckets exist; st.version is the     *)
(* value stored under the `version` key, NilBytes when the key is absent.  *)
(* The content of the `users` bucket is the separate function db.          *)
(***************************************************************************)
\* the version New writes and accepts, []byte{0}
versionValue == <<0>>

\* an IsValid that answers false when the bucket is missing
IsValidOutcome_FalseOnMissingBucket(st, db, u, k) ==
    IF u = NilBytes \/ Len(u) > MaxUsernameSize \/ k = NilBytes THEN "false"
    ELSE IF ~st.usersBkt THEN "false"
    ELSE IF IsValid(db, u, k) THEN "true" ELSE "false"

\* an IsValid that hands a nil key to the comparison
IsValidOutcome_NoKeyCheck(st, db, u, k) ==
    IF u = NilBytes \/ Len(u) > MaxUsernameSize THEN "false"
    ELSE IF ~st.usersBkt THEN "panic"
    ELSE IF u \notin DOMAIN db THEN "false"
    ELSE IF k = NilBytes THEN "panic"
    ELSE IF ConstantTimeCompare(db[u], k) = 1 THEN "true" ELSE "false"

\* boltUserDB.IsValid as a whole: "true", "false", or "panic" when the
\* `users` bucket is missing
IsValidOutcome(st, db, u, k) ==
    IF u = NilBytes \/ Len(u) > MaxUsernameSize \/ k = NilBytes THEN "false"
    ELSE IF ~st.usersBkt THEN "panic"
    ELSE IF IsValid(db, u, k) THEN "true" ELSE "false"

\* bolt's Bucket.Put as Add uses it: an empty key is refused with
\* ErrKeyRequired, any other key is inserted or overwritten
BktPut(db, key, value) ==
    IF Len(key) = 0
    THEN [err |-> "key required", users |-> db]
    ELSE [err |-> "none",
          users |-> [x \in DOMAIN db \cup {key} |->
                       IF x = key THEN value ELSE db[x]]]

\* an Add that keeps the key a username was first registered with
Add_KeepFirst(st, db, u, k) ==
    IF u = NilBytes \/ Len(u) > MaxUsernameSize
    THEN [err |-> "invalid username", users |-> db]
    ELSE IF k = NilBytes THEN [err |-> "must provide a public key", users |-> db]
    ELSE IF ~st.usersBkt THEN [err |-> "panic", users |-> db]
    ELSE IF u \in DOMAIN db THEN [err |-> "none", users |-> db]
    ELSE BktPut(db, u, k)

\* an Add that does not check the username before writing
Add_NoUsernameCheck(st, db, u, k) ==
    IF k = NilBytes THEN [err |-> "must provide a public key", users |-> db]
    ELSE IF ~st.usersBkt THEN [err |-> "panic", users |-> db]
    ELSE BktPut(db, u, k)

\* boltUserDB.Add: the error it returns ("none" for nil, "panic" for the
\* missing-bucket panic) and the `users` bucket afterwards; a failed
\* Update transaction is rolled back
Add(st, db, u, k) ==
    IF u = NilBytes \/ Len(u) > MaxUsernameSize
    THEN [err |-> "invalid username", users |-> db]
    ELSE IF k = NilBytes THEN [err |-> "must provide a public key", users |-> db]
    ELSE IF ~st.usersBkt THEN [err |-> "panic", users |-> db]
    ELSE BktPut(db, u, k)

\* boltuserdb.New on the file st: "ok", "error" (nil, err) or "panic", and
\* the file afterwards.  The format string's argument b[0] is evaluated
\* whenever the version is rejected, so a stored version of length zero is
\* an index out of range.  A transaction that fails or panics is rolled
\* back, bucket creation included.
New(st, opens) ==
    IF ~opens THEN [ret |-> "error", store |-> st]
    ELSE LET b == IF st.meta THEN st.version ELSE NilBytes
         IN IF b # NilBytes
            THEN IF Len(b) # 1 \/ b[1] # versionValue[1]
                 THEN IF Len(b) = 0
                      THEN [ret |-> "panic", store |-> st]
                      ELSE [ret |-> "error", store |-> st]
                 ELSE [ret |-> "ok",
                       store |-> [meta |-> TRUE, version |-> b, usersBkt |-> TRUE]]
            ELSE [ret |-> "ok",
                  store |-> [meta |-> TRUE, version |-> versionValue,
                             usersBkt |-> TRUE]]

\* packet.isSURBReply
isSURBReply(p) == p.surbReply # NilBytes

\* Spool.StoreMessage: append to the user's queue
StoreMessage(q, user, msg) ==
    [q EXCEPT ![user] = Append(@, [surbID |-> NilBytes, msg |-> msg])]

\* Spool.StoreSURBReply: append an entry tagged with the SURB id
StoreSURBReply(q, user, id, msg) ==
    [q EXCEPT ![user] = Append(@, [surbID |-> id, msg |-> msg])]

\* the head entry's fields, nil when the queue is empty
HeadOf(entries) ==
    IF entries = <<>>
    THEN [msg |-> NilBytes, surbID |-> NilBytes]
    ELSE [msg |-> entries[1].msg, surbID |-> entries[1].surbID]

\* a Get that returns the head and then removes it
Get_PeekThenDequeue(q, user, advance) ==
    LET old == q[user]
        new == IF advance /\ old # <<>> THEN Tail(old) ELSE old
    IN [spoolQ |-> [q EXCEPT ![user] = new],
        msg |-> HeadOf(old).msg, surbID |-> HeadOf(old).surbID]

\* a Get that removes the head whatever `advance` says
Get_AlwaysAdvance(q, user, advance) ==
    LET old == q[user]
        new == IF old # <<>> THEN Tail(old) ELSE old
    IN [spoolQ |-> [q EXCEPT ![user] = new],
        msg |-> HeadOf(new).msg, surbID |-> HeadOf(new).surbID]

\* Spool.Get: with advance, delete the first entry; return the (new) first
\* entry, nil when there is none
Get(q, user, advance) ==
    LET old == q[user]
        new == IF advance /\ old # <<>> THEN Tail(old) ELSE old
    IN [spoolQ |-> [q EXCEPT ![user] = new],
        msg |-> HeadOf(new).msg, surbID |-> HeadOf(new).surbID]

\* sphinx.NewPacketFromSURB: the collaborator rejects a SURB it cannot parse
\* (here: one whose first byte is zero) and otherwise returns the raw packet
\* and the first hop.
NewPacketFromSURB(surb, payload) ==
    IF surb[1] = 0
    THEN [err |-> TRUE, raw |-> <<>>, firstHop |-> 0]
    ELSE [err |-> FALSE, raw |-> surb \o payload, firstHop |-> surb[1]]

\* The fixed ack payload, var ackPayload [ForwardPayloadLength]byte (zeroed)
ackPayload == <<0>>

(***************************************************************************)
(* Inputs.                                                                 *)
(***************************************************************************)
Pkt(r, s, b, nd, d, t) ==
    [recipient |-> r, surbReply |-> s, payload |-> b,
     nodeDelay |-> nd, delay |-> d, recvAt |-> t]

RecipientFields == [1..RecipientWidth -> NameBytes]
Names == {TrimRight(r) : r \in RecipientFields}
SurbIDs == {<<1>>}
Payloads == SeqsUpTo(Bytes, hdrLength + MaxCtLen)
Keys == {<<1>>, <<2>>}

AllPackets ==
    {Pkt(r, s, b, nd, nd + MaxDelay, 1 + 2 * MaxDelay) :
        r \in RecipientFields, s \in SurbIDs \cup {NilBytes},
        b \in Payloads, nd \in 1..MaxDelay}

\* name, NUL-padded to the recipient field's width
Padded(name) == [i \in 1..RecipientWidth |-> IF i <= Len(name) THEN name[i] ELSE 0]

\* a plaintext block: flags, reserved, a SURB of the byte sb, ciphertext ct
Block(flags, rsvd, sb, ct) == <<flags, rsvd>> \o [i \in 1..SURBLength |-> sb] \o ct

\* The packets of the lifecycle specification: one per dispatch path, all for
\* the registered user <<1>> but the first.
SmallPackets ==
    {Pkt([i \in 1..RecipientWidth |-> 1], NilBytes, Block(0, 0, 0, <<1>>), 1, 1 + MaxDelay, 1 + 2 * MaxDelay),
     Pkt(Padded(<<1>>), <<1>>, <<2>>, 1, 1 + MaxDelay, 1 + 2 * MaxDelay)}
    \cup
    {Pkt(Padded(<<1>>), NilBytes, b, 1, 1 + MaxDelay, 1 + 2 * MaxDelay) :
        b \in {Block(0, 0, 0, <<1>>), Block(1, 0, 1, <<2>>), Block(1, 0, 0, <<2>>),
               Block(1, 1, 1, <<2>>)}}

\* The directory the provider runs with: one registered user.
UsersInit == (<<1>> :> <<1>>)

\* the file of a database that New has opened before
StoreInit == [meta |-> TRUE, version |-> versionValue, usersBkt |-> TRUE]

\* no call made on the user database yet
NoCall == [op |-> "none", u |-> NilBytes, k |-> NilBytes, ret |-> "none"]

\* the usernames handed to Add and IsValid: nil, empty, one byte, the
\* longest valid one, and one byte too long
Full == [i \in 1..MaxUsernameSize |-> 1]
TooLong == [i \in 1..(MaxUsernameSize + 1) |-> 1]
DBNames == {NilBytes, <<>>, <<1>>, <<0, 1>>, Full, TooLong}
DBKeys == Keys \cup {NilBytes}

\* the version values a file may hold: none, the expected byte, another
\* byte, no byte at all, two bytes
VersionValues == {NilBytes, versionValue, <<1>>, <<>>, <<0, 0>>}

\* the files New may be pointed at: a new file, or one with both buckets
PersistedStores ==
    {[meta |-> FALSE, version |-> NilBytes, usersBkt |-> FALSE]}
    \cup {[meta |-> TRUE, version |-> v, usersBkt |-> TRUE] : v \in VersionValues}

(***************************************************************************)
(* onSURBReply and onToUser, as functions of the packet, the recipient,    *)
(* the spool content, the scheduler's input and the outcome of the store.  *)
(***************************************************************************)
\* c: the calls made on the spool while handling the packet
Outcome(q, c, s, pth) == [spoolQ |-> q, calls |-> c, sched |-> s, path |-> pth]

\* one call on the spool: its arguments and whether it returned nil (ok)
Call(op, user, id, msg, ok) ==
    [op |-> op, user |-> user, id |-> id, msg |-> msg, ok |-> ok]

\* an onSURBReply that drops a payload too short to be a plaintext block
onSURBReply_DropsShort(p, recipient, q, s, storeOk) ==
    LET c == <<Call("StoreSURBReply", recipient, p.surbReply, p.payload, storeOk)>>
    IN IF Len(p.payload) < hdrLength THEN Outcome(q, <<>>, s, "truncated")
       ELSE IF storeOk
       THEN Outcome(StoreSURBReply(q, recipient, p.surbReply, p.payload), c, s,
                    "surbStored")
       ELSE Outcome(q, c, s, "surbStoreFailed")

onSURBReply(p, recipient, q, s, storeOk) ==
    LET c == <<Call("StoreSURBReply", recipient, p.surbReply, p.payload, storeOk)>>
    IN IF storeOk
       THEN Outcome(StoreSURBReply(q, recipient, p.surbReply, p.payload), c, s,
                    "surbStored")
       ELSE Outcome(q, c, s, "surbStoreFailed")

\* an ack whose commands are in the other order
AckPacket_DelayFirst(p, r) ==
    [raw |-> r.raw,
     cmds |-> <<[cmd |-> "NodeDelay", delay |-> p.nodeDelay],
                [cmd |-> "NextNodeHop", id |-> r.firstHop]>>,
     recvAt |-> p.recvAt, delay |-> p.delay, mustForward |-> TRUE]

\* an ack whose delay is not taken from the packet
AckPacket_FreshDelay(p, r) ==
    [raw |-> r.raw,
     cmds |-> <<[cmd |-> "NextNodeHop", id |-> r.firstHop],
                [cmd |-> "NodeDelay", delay |-> p.nodeDelay]>>,
     recvAt |-> p.recvAt, delay |-> 0, mustForward |-> TRUE]

\* the SURB-ACK built at provider.go:173-190
AckPacket(p, r) ==
    [raw |-> r.raw,
     cmds |-> <<[cmd |-> "NextNodeHop", id |-> r.firstHop],
                [cmd |-> "NodeDelay", delay |-> p.nodeDelay]>>,
     recvAt |-> p.recvAt, delay |-> p.delay, mustForward |-> TRUE]

\* a parse that does not look at the reserved byte
ParseBlock_NoReservedCheck(b) ==
    IF Len(b) < hdrLength THEN "truncated"
    ELSE IF b[1] \notin {flagsPadding, flagsSURB} THEN "badFlags"
    ELSE "ok"

\* the checks of provider.go:133-152 on the payload: what the block is
\* dropped for, or "ok"
ParseBlock(b) ==
    IF Len(b) < hdrLength THEN "truncated"
    ELSE IF b[2] # reserved THEN "badReserved"
    ELSE IF b[1] \notin {flagsPadding, flagsSURB} THEN "badFlags"
    ELSE "ok"

\* an onToUser that takes the message back when the ack cannot be built
onToUser_RollbackOnAckFailure(p, recipient, q, s, storeOk) ==
    LET b == p.payload
        parsed == ParseBlock(b)
    IN
    IF parsed # "ok" THEN Outcome(q, <<>>, s, parsed)
    ELSE LET ct == SliceFrom(b, hdrLength)
             c == <<Call("StoreMessage", recipient, NilBytes, ct, storeOk)>>
             stored == StoreMessage(q, recipient, ct)
         IN IF ~storeOk THEN Outcome(q, c, s, "storeFailed")
            ELSE IF b[1] = flagsSURB
            THEN LET r == NewPacketFromSURB(Slice(b, 2, hdrLength), ackPayload)
                 IN IF r.err THEN Outcome(q, c, s, "ackFailed")
                    ELSE Outcome(stored, c, Append(s, AckPacket(p, r)), "storedAck")
            ELSE Outcome(stored, c, s, "storedNoAck")

\* an onToUser that goes on to the ack after a failed store
onToUser_AckAfterFailedStore(p, recipient, q, s, storeOk) ==
    LET b == p.payload
        parsed == ParseBlock(b)
    IN
    IF parsed # "ok" THEN Outcome(q, <<>>, s, parsed)
    ELSE LET ct == SliceFrom(b, hdrLength)
             c == <<Call("StoreMessage", recipient, NilBytes, ct, storeOk)>>
             stored == IF storeOk THEN StoreMessage(q, recipient, ct) ELSE q
         IN IF b[1] = flagsSURB
            THEN LET r == NewPacketFromSURB(Slice(b, 2, hdrLength), ackPayload)
                 IN IF r.err THEN Outcome(stored, c, s, "ackFailed")
                    ELSE Outcome(stored, c, Append(s, AckPacket(p, r)), "storedAck")
            ELSE Outcome(stored, c, s, "storedNoAck")

onToUser(p, recipient, q, s, storeOk) ==
    LET b == p.payload
        parsed == ParseBlock(b)
    IN
    IF parsed # "ok" THEN Outcome(q, <<>>, s, parsed)
    ELSE LET ct == SliceFrom(b, hdrLength)
             c == <<Call("StoreMessage", recipient, NilBytes, ct, storeOk)>>
             stored == StoreMessage(q, recipient, ct)
         IN IF ~storeOk THEN Outcome(q, c, s, "storeFailed")
            ELSE IF b[1] = flagsSURB
            THEN LET r == NewPacketFromSURB(Slice(b, 2, hdrLength), ackPayload)
                 IN IF r.err THEN Outcome(stored, c, s, "ackFailed")
                    ELSE Outcome(stored, c, Append(s, AckPacket(p, r)), "storedAck")
            ELSE Outcome(stored, c, s, "storedNoAck")

\* the calls c, each marked with the id of the packet being handled
CallsOf(id, c) ==
    [i \in 1..Len(c) |-> [pkt |-> id, op |-> c[i].op, user |-> c[i].user,
                          id |-> c[i].id, msg |-> c[i].msg, ok |-> c[i].ok]]

\* a worker that does not check the recipient
RecipientOk_NoCheck(db, recipient) == TRUE

\* the worker's recipient check, provider.go:96
RecipientOk(db, recipient) == Exists(db, recipient)

\* a worker that gives up when a store fails
AfterDispatch_StopOnStoreFailure(pth) ==
    IF pth \in {"storeFailed", "surbStoreFailed"} THEN "none"
    ELSE IF pth = "unknown" THEN "disposeDrop" ELSE "dispose"

\* a worker that continues after a drop without disposing the packet
AfterDispatch_LeakOnDrop(pth) == IF pth = "unknown" THEN "select" ELSE "dispose"

\* where the worker goes after the dispatch: the drop path disposes at
\* provider.go:98 and continues, every other path disposes at provider.go:112
AfterDispatch(pth) == IF pth = "unknown" THEN "disposeDrop" ELSE "dispose"

(***************************************************************************)
(* Initial states.  newProvider as written never returns a provider: with  *)
(* the user database open it reaches the spool stub's panic.  The states   *)
(* that provider.go:216-218 would leave (one worker counted in the         *)
(* WaitGroup and started, a spool attached) are initial states too, so     *)
(* that worker, halt, onPacket and authenticateClient are analysed on the  *)
(* provider they are written for.                                          *)
(***************************************************************************)
FreshProvider ==
    /\ chQ = <<>> /\ chClosed = FALSE /\ pkts = <<>> /\ late = {}
    /\ spoolQ = [n \in Names |-> <<>>]
    /\ sched = <<>>
    /\ pkt = NoPacket
    /\ disposed = [i \in PacketIds |-> 0]
    /\ path = [i \in PacketIds |-> "none"]
    /\ haltPc = [h \in HaltCallers |-> "idle"]
    /\ authPc = [a \in AuthCallers |-> "idle"]
    /\ authRes = [a \in AuthCallers |-> FALSE]
    /\ authSaw = [a \in AuthCallers |-> "none"]
    /\ panics = {} /\ exited = FALSE
    /\ calls = <<>>

\* no comparison, no Get, no key file read, Server.halt not called
NoGet == [called |-> FALSE, user |-> NilBytes, advance |-> FALSE,
          msg |-> NilBytes, surbID |-> NilBytes]
KeyNames == {"identity", "link"}
NoFile == [exists |-> FALSE, readable |-> FALSE, items |-> <<>>]
\* The Server the startup of the specification leaves, every component up.
\* New does not return it for a provider: newProvider panics or fails.
ConUp ==
    [cfg |-> [generateOnly |-> FALSE, management |-> TRUE, isProvider |-> TRUE,
              addresses |-> 1],
     pc |-> "ok",
     built |-> {"periodic", "management", "listeners", "connector", "cryptoWorkers",
                "provider", "scheduler", "pki", "mixKeys", "inboundPackets"},
     once |-> FALSE, halts |-> 0,
     calls |-> 0, res |-> "ok"]

IdleCompare == cmp = [x |-> <<>>, y |-> <<>>, i |-> 0, v |-> 0, done |-> FALSE, ret |-> 0]
IdleGet == got = NoGet
IdleKeys ==
    /\ keyFile = [n \in KeyNames |-> NoFile]
    /\ nodeKey = [n \in KeyNames |-> NilBytes]
    /\ keyRes = [n \in KeyNames |-> "none"]
IdleServer == srv = [pc |-> 0, halted |-> {}, inProvider |-> FALSE, schedAt |-> 0, con |-> ConUp]

\* the provider's user database: opened before, one registered user
Fresh ==
    /\ FreshProvider
    /\ IdleCompare /\ IdleGet /\ IdleKeys /\ IdleServer
    /\ users = UsersInit
    /\ store = StoreInit
    /\ dbRes = NoCall
    /\ lastAdd = UsersInit

\* The provider the startup of the specification leaves (open the
\* credential directory, attach the spool, start the worker).  The code does
\* not reach it: newProvider panics at provider.go:214 once the database is
\* open, and no line of it assigns p.spool.  The specifications of the
\* worker, of halt and of the callers start here; they show what that code
\* does on a provider started as specified.
InitRunning ==
    /\ Fresh
    /\ ctor = "running" /\ haltCh = "open" /\ wg = 1
    /\ userDB = "open" /\ spool = "open" /\ workerPc = "select"

\* the state the code starts newProvider in
Init ==
    /\ Fresh
    /\ ctor = "start" /\ haltCh = "unset" /\ wg = 0
    /\ userDB = "unset" /\ spool = "unset" /\ workerPc = "none"

Live == ctor = "running" /\ ~exited

(***************************************************************************)
(* newProvider, provider.go:200-219.                                       *)
(***************************************************************************)
NewProvider ==
    /\ ctor = "start" /\ ~exited
    /\ \E dbOpens \in BOOLEAN :
         IF dbOpens
         THEN /\ ctor' = "panicked"
              /\ haltCh' = "open"
              /\ userDB' = "open"
              /\ panics' = panics \cup {"newProvider"}
         ELSE /\ ctor' = "failed"
              /\ haltCh' = "open"
              /\ UNCHANGED <<userDB, panics>>
    /\ UNCHANGED <<wg, chQ, chClosed, pkts, late, users, dbVars, otherVars, spool, spoolQ, calls, sched,
                   workerPc, pkt, disposed, path, haltPc, authPc, authRes,
                   authSaw, exited>>

(***************************************************************************)
(* onPacket, provider.go:67-70.  A send on the InfiniteChannel's input     *)
(* after Close() is a send on a closed channel.                            *)
(***************************************************************************)
onPacket(p) ==
    /\ Live
    /\ IF chClosed
       THEN /\ panics' = panics \cup {"onPacket"}
            /\ UNCHANGED <<chQ, pkts, late>>
       ELSE /\ pkts' = Append(pkts, p)
            /\ chQ' = Append(chQ, Len(pkts) + 1)
            /\ late' = IF haltCh = "closed" THEN late \cup {Len(pkts) + 1} ELSE late
            /\ UNCHANGED panics
    /\ UNCHANGED <<ctor, haltCh, wg, chClosed, userDB, users, dbVars, otherVars, spool, spoolQ, calls,
                   sched, workerPc, pkt, disposed, path, haltPc, authPc,
                   authRes, authSaw, exited>>

\* the callers of onPacket: at most max packets, drawn from universe
Submit(universe, max) ==
    /\ Len(pkts) < max
    /\ \E p \in universe : onPacket(p)

(***************************************************************************)
(* worker, provider.go:72-114.                                             *)
(***************************************************************************)
\* select, case <-p.haltCh: logs and falls out of the select with pkt = nil
WorkerSelectHalt ==
    /\ Live /\ workerPc = "select"
    /\ haltCh = "closed"
    /\ pkt' = NoPacket
    /\ workerPc' = "recipient"
    /\ UNCHANGED <<ctor, haltCh, wg, chQ, chClosed, pkts, late, userDB, users, dbVars, otherVars,
                   spool, spoolQ, calls, sched, disposed, path, haltPc, authPc,
                   authRes, authSaw, panics, exited>>

\* a worker that takes the packet submitted last
WorkerSelectPacket_TakeLast ==
    /\ Live /\ workerPc = "select"
    /\ chQ # <<>>
    /\ pkt' = chQ[Len(chQ)]
    /\ chQ' = SubSeq(chQ, 1, Len(chQ) - 1)
    /\ workerPc' = "recipient"
    /\ UNCHANGED <<ctor, haltCh, wg, chClosed, pkts, late, userDB, users, dbVars, otherVars,
                   spool, spoolQ, calls, sched, disposed, path, haltPc, authPc,
                   authRes, authSaw, panics, exited>>

\* select, case e := <-ch
WorkerSelectPacket ==
    /\ Live /\ workerPc = "select"
    /\ chQ # <<>>
    /\ pkt' = Head(chQ)
    /\ chQ' = Tail(chQ)
    /\ workerPc' = "recipient"
    /\ UNCHANGED <<ctor, haltCh, wg, chClosed, pkts, late, userDB, users, dbVars, otherVars,
                   spool, spoolQ, calls, sched, disposed, path, haltPc, authPc,
                   authRes, authSaw, panics, exited>>

\* provider.go:89-103: pkt.recipient of a nil pkt is a nil dereference, and
\* the deferred p.Done() runs as the panic unwinds; otherwise the recipient
\* is trimmed and looked up with p.userDB.Exists.
WorkerDispatch ==
    /\ Live /\ workerPc = "recipient"
    /\ IF pkt = NoPacket
       THEN /\ workerPc' = "panicked"
            /\ wg' = wg - 1
            /\ panics' = panics \cup {"worker"}
            /\ UNCHANGED path
       ELSE /\ IF ~RecipientOk(users, TrimRight(pkts[pkt].recipient))
               THEN /\ path' = [path EXCEPT ![pkt] = "unknown"]
                    /\ workerPc' = AfterDispatch("unknown")
               ELSE /\ workerPc' = "store"
                    /\ UNCHANGED path
            /\ UNCHANGED <<wg, panics>>
    /\ UNCHANGED <<ctor, haltCh, chQ, chClosed, pkts, late, userDB, users, dbVars, otherVars,
                   spool, spoolQ, calls, sched, pkt, disposed, haltPc, authPc,
                   authRes, authSaw, exited>>

\* provider.go:105-110 up to the return of the spool call: onSURBReply's
\* StoreSURBReply (provider.go:118), or onToUser's checks of the block
\* (provider.go:133-152) and its StoreMessage (provider.go:155).  A stored
\* message that carries a SURB sends the worker on to the ack.
WorkerStore ==
    /\ Live /\ workerPc = "store"
    /\ LET p == pkts[pkt]
           recipient == TrimRight(p.recipient)
       IN \E storeOk \in BOOLEAN :
            LET out == IF isSURBReply(p)
                       THEN onSURBReply(p, recipient, spoolQ, sched, storeOk)
                       ELSE onToUser(p, recipient, spoolQ, sched, storeOk)
            IN /\ spoolQ' = out.spoolQ
               /\ calls' = calls \o CallsOf(pkt, out.calls)
               /\ IF out.path \in {"storedAck", "ackFailed"}
                  THEN /\ workerPc' = "ack"
                       /\ UNCHANGED path
                  ELSE /\ path' = [path EXCEPT ![pkt] = out.path]
                       /\ workerPc' = AfterDispatch(out.path)
    /\ UNCHANGED <<ctor, haltCh, wg, chQ, chClosed, pkts, late, userDB, users, dbVars, otherVars,
                   spool, sched, pkt, disposed, haltPc, authPc, authRes, authSaw,
                   panics, exited>>

\* provider.go:161-190: sphinx.NewPacketFromSURB and the packet structure
\* of the ack; a SURB the collaborator rejects ends onToUser
WorkerAck ==
    /\ Live /\ workerPc = "ack"
    /\ LET p == pkts[pkt]
           out == onToUser(p, TrimRight(p.recipient), spoolQ, sched, TRUE)
       IN IF out.path = "ackFailed"
          THEN /\ path' = [path EXCEPT ![pkt] = "ackFailed"]
               /\ workerPc' = AfterDispatch("ackFailed")
          ELSE /\ workerPc' = "send"
               /\ UNCHANGED path
    /\ UNCHANGED <<ctor, haltCh, wg, chQ, chClosed, pkts, late, userDB, users, dbVars, otherVars,
                   spool, spoolQ, calls, sched, pkt, disposed, haltPc, authPc,
                   authRes, authSaw, panics, exited>>

\* provider.go:193-194: p.s.scheduler.onPacket(ackPkt)
WorkerSend ==
    /\ Live /\ workerPc = "send"
    /\ LET p == pkts[pkt]
           out == onToUser(p, TrimRight(p.recipient), spoolQ, sched, TRUE)
       IN /\ sched' = out.sched
          /\ path' = [path EXCEPT ![pkt] = out.path]
          /\ workerPc' = AfterDispatch(out.path)
    /\ UNCHANGED <<ctor, haltCh, wg, chQ, chClosed, pkts, late, userDB, users, dbVars, otherVars,
                   spool, spoolQ, calls, pkt, disposed, haltPc, authPc, authRes,
                   authSaw, panics, exited>>

\* provider.go:98-99: pkt.dispose(); continue
WorkerDisposeDrop ==
    /\ Live /\ workerPc = "disposeDrop"
    /\ disposed' = [disposed EXCEPT ![pkt] = @ + 1]
    /\ workerPc' = "select"
    /\ UNCHANGED <<ctor, haltCh, wg, chQ, chClosed, pkts, late, userDB, users, dbVars, otherVars,
                   spool, spoolQ, calls, sched, pkt, path, haltPc, authPc, authRes,
                   authSaw, panics, exited>>

\* provider.go:112: pkt.dispose() at the end of the loop body
WorkerDispose ==
    /\ Live /\ workerPc = "dispose"
    /\ disposed' = [disposed EXCEPT ![pkt] = @ + 1]
    /\ workerPc' = "select"
    /\ UNCHANGED <<ctor, haltCh, wg, chQ, chClosed, pkts, late, userDB, users, dbVars, otherVars,
                   spool, spoolQ, calls, sched, pkt, path, haltPc, authPc, authRes,
                   authSaw, panics, exited>>

(***************************************************************************)
(* halt, provider.go:46-59, one step per statement.                        *)
(***************************************************************************)
HaltUnchanged ==
    UNCHANGED <<ctor, chQ, pkts, late, users, dbVars, otherVars, spoolQ, calls, sched, workerPc, pkt,
                disposed, path, authPc, authRes, authSaw, exited>>

\* close(p.haltCh): closing a closed channel panics
HaltCloseHaltCh(h) ==
    /\ Live /\ haltPc[h] = "idle"
    /\ IF haltCh = "closed"
       THEN /\ haltPc' = [haltPc EXCEPT ![h] = "panicked"]
            /\ panics' = panics \cup {"halt"}
            /\ UNCHANGED haltCh
       ELSE /\ haltCh' = "closed"
            /\ haltPc' = [haltPc EXCEPT ![h] = "wait"]
            /\ UNCHANGED panics
    /\ UNCHANGED <<wg, chClosed, userDB, spool>>
    /\ HaltUnchanged

\* p.Wait()
HaltWait(h) ==
    /\ Live /\ haltPc[h] = "wait"
    /\ wg = 0
    /\ haltPc' = [haltPc EXCEPT ![h] = "chClose"]
    /\ UNCHANGED <<haltCh, wg, chClosed, userDB, spool, panics>>
    /\ HaltUnchanged

\* p.ch.Close()
HaltCloseCh(h) ==
    /\ Live /\ haltPc[h] = "chClose"
    /\ chClosed' = TRUE
    /\ haltPc' = [haltPc EXCEPT ![h] = "dbClose"]
    /\ UNCHANGED <<haltCh, wg, userDB, spool, panics>>
    /\ HaltUnchanged

\* if p.userDB != nil { p.userDB.Close()
HaltCloseUserDB(h) ==
    /\ Live /\ haltPc[h] = "dbClose"
    /\ IF userDB # "nil"
       THEN /\ userDB' = "closed"
            /\ haltPc' = [haltPc EXCEPT ![h] = "dbNil"]
       ELSE /\ UNCHANGED userDB
            /\ haltPc' = [haltPc EXCEPT ![h] = "spoolClose"]
    /\ UNCHANGED <<haltCh, wg, chClosed, spool, panics>>
    /\ HaltUnchanged

\* p.userDB = nil }
HaltNilUserDB(h) ==
    /\ Live /\ haltPc[h] = "dbNil"
    /\ userDB' = "nil"
    /\ haltPc' = [haltPc EXCEPT ![h] = "spoolClose"]
    /\ UNCHANGED <<haltCh, wg, chClosed, spool, panics>>
    /\ HaltUnchanged

\* if p.spool != nil { p.spool.Close()
HaltCloseSpool(h) ==
    /\ Live /\ haltPc[h] = "spoolClose"
    /\ IF spool # "nil"
       THEN /\ spool' = "closed"
            /\ haltPc' = [haltPc EXCEPT ![h] = "spoolNil"]
       ELSE /\ UNCHANGED spool
            /\ haltPc' = [haltPc EXCEPT ![h] = "returned"]
    /\ UNCHANGED <<haltCh, wg, chClosed, userDB, panics>>
    /\ HaltUnchanged

\* p.spool = nil }
HaltNilSpool(h) ==
    /\ Live /\ haltPc[h] = "spoolNil"
    /\ spool' = "nil"
    /\ haltPc' = [haltPc EXCEPT ![h] = "returned"]
    /\ UNCHANGED <<haltCh, wg, chClosed, userDB, panics>>
    /\ HaltUnchanged

(***************************************************************************)
(* authenticateClient, provider.go:61-65.                                  *)
(***************************************************************************)
AuthUnchanged ==
    UNCHANGED <<ctor, haltCh, wg, chQ, chClosed, pkts, late, userDB, users, dbVars, otherVars,
                spool, spoolQ, calls, sched, workerPc, pkt, disposed, path, haltPc,
                exited>>

\* a connection handler enters authenticateClient
AuthCall(a) ==
    /\ Live /\ authPc[a] = "idle"
    /\ authPc' = [authPc EXCEPT ![a] = "called"]
    /\ UNCHANGED <<authRes, authSaw, panics>>
    /\ AuthUnchanged

\* p.userDB.IsValid(c.AdditionalData, c.PublicKey): a method call on a nil
\* interface panics; on a closed bolt database View returns an error and
\* IsValid returns false.
AuthIsValid(a) ==
    /\ Live /\ authPc[a] = "called"
    /\ authSaw' = [authSaw EXCEPT ![a] = userDB]
    /\ IF userDB = "nil"
       THEN /\ authPc' = [authPc EXCEPT ![a] = "panicked"]
            /\ panics' = panics \cup {"auth"}
            /\ UNCHANGED authRes
       ELSE /\ \E u \in Names \cup {NilBytes}, k \in Keys \cup {NilBytes} :
                 authRes' = [authRes EXCEPT ![a] =
                                IF userDB = "open" THEN IsValid(users, u, k) ELSE FALSE]
            /\ authPc' = [authPc EXCEPT ![a] = "returned"]
            /\ UNCHANGED panics
    /\ AuthUnchanged

(***************************************************************************)
(* The runtime ends the process after an unrecovered panic.                *)
(***************************************************************************)
ProcessExit ==
    /\ panics # {} /\ ~exited
    /\ exited' = TRUE
    /\ UNCHANGED <<ctor, haltCh, wg, chQ, chClosed, pkts, late, userDB, users, dbVars, otherVars,
                   spool, spoolQ, calls, sched, workerPc, pkt, disposed, path, haltPc,
                   authPc, authRes, authSaw, panics>>

Worker ==
    \/ WorkerSelectHalt
    \/ WorkerSelectPacket
    \/ WorkerDispatch
    \/ WorkerStore
    \/ WorkerAck
    \/ WorkerSend
    \/ WorkerDisposeDrop
    \/ WorkerDispose

Halt(h) ==
    \/ HaltCloseHaltCh(h)
    \/ HaltWait(h)
    \/ HaltCloseCh(h)
    \/ HaltCloseUserDB(h)
    \/ HaltNilUserDB(h)
    \/ HaltCloseSpool(h)
    \/ HaltNilSpool(h)

\* The provider as the code constructs it: newProvider fails or panics, and
\* no worker, halt or caller ever runs.
Next ==
    \/ NewProvider
    \/ ProcessExit

Spec == Init /\ [][Next]_vars

\* The provider specification: the provider started as specified, with its
\* submitters, its worker, its halt callers and its authentication callers.
NextProvider ==
    \/ Submit(SmallPackets, MaxPackets)
    \/ Worker
    \/ \E h \in HaltCallers : Halt(h)
    \/ \E a \in AuthCallers : AuthCall(a) \/ AuthIsValid(a)
    \/ ProcessExit

SpecProvider == InitRunning /\ [][NextProvider]_vars

\* The pipeline specification: a running provider, its submitters, its
\* worker and its halt callers, without the authentication callers.
NextPipeline ==
    \/ Submit(SmallPackets, MaxPackets)
    \/ Worker
    \/ \E h \in HaltCallers : Halt(h)
    \/ ProcessExit

SpecPipeline == InitRunning /\ [][NextPipeline]_vars

\* The dispatch specification: a running provider that is handed one packet,
\* any packet of the input space, and the worker's dispatch of it.  The
\* steps of halt and authenticateClient leave the packet, the spool and the
\* scheduler's input alone and are left out.
SubmitOne ==
    /\ pkts = <<>>
    /\ \E p \in AllPackets : onPacket(p)

NextDispatch ==
    \/ SubmitOne
    \/ WorkerSelectPacket
    \/ WorkerDispatch
    \/ WorkerStore
    \/ WorkerAck
    \/ WorkerSend
    \/ WorkerDisposeDrop
    \/ WorkerDispose

SpecDispatch == InitRunning /\ [][NextDispatch]_vars

(***************************************************************************)
(* The user database on its own, boltuserdb.go: a caller that opens a      *)
(* file, adds users, asks IsValid and closes the handle again.  userDB is  *)
(* the handle New returned: "unset" while there is none.                   *)
(***************************************************************************)
DBUnchanged ==
    UNCHANGED <<otherVars, ctor, haltCh, wg, chQ, chClosed, pkts, late, spool, spoolQ,
                calls, sched, workerPc, pkt, disposed, path, haltPc, authPc,
                authRes, authSaw, exited>>

DBCalled(op, u, k, ret) == [op |-> op, u |-> u, k |-> k, ret |-> ret]

\* New, boltuserdb.go:92-135
DBNew ==
    /\ userDB \in {"unset", "closed"} /\ panics = {}
    /\ \E opens \in BOOLEAN :
         LET r == New(store, opens)
         IN /\ store' = r.store
            /\ userDB' = IF r.ret = "ok" THEN "open" ELSE "unset"
            /\ panics' = IF r.ret = "panic" THEN panics \cup {"New"} ELSE panics
            /\ dbRes' = DBCalled("New", NilBytes, NilBytes, r.ret)
    /\ UNCHANGED <<users, lastAdd>>
    /\ DBUnchanged

\* Add, boltuserdb.go:65-84
DBAdd ==
    /\ userDB = "open" /\ panics = {}
    /\ \E u \in DBNames, k \in DBKeys :
         LET r == Add(store, users, u, k)
         IN /\ users' = r.users
            /\ lastAdd' = IF r.err = "none"
                          THEN [x \in DOMAIN lastAdd \cup {u} |->
                                  IF x = u THEN k ELSE lastAdd[x]]
                          ELSE lastAdd
            /\ panics' = IF r.err = "panic" THEN panics \cup {"Add"} ELSE panics
            /\ dbRes' = DBCalled("Add", u, k, r.err)
    /\ UNCHANGED <<userDB, store>>
    /\ DBUnchanged

\* IsValid, boltuserdb.go:36-63
DBIsValid ==
    /\ userDB = "open" /\ panics = {}
    /\ \E u \in DBNames, k \in DBKeys :
         LET r == IsValidOutcome(store, users, u, k)
         IN /\ panics' = IF r = "panic" THEN panics \cup {"IsValid"} ELSE panics
            /\ dbRes' = DBCalled("IsValid", u, k, r)
    /\ UNCHANGED <<userDB, users, store, lastAdd>>
    /\ DBUnchanged

\* Close, boltuserdb.go:86-89
DBClose ==
    /\ userDB = "open" /\ panics = {}
    /\ userDB' = "closed"
    /\ dbRes' = DBCalled("Close", NilBytes, NilBytes, "none")
    /\ UNCHANGED <<users, store, lastAdd, panics>>
    /\ DBUnchanged

\* before the first New: any file the database may be pointed at, no handle
NoUsers == [x \in {} |-> NilBytes]

InitUserDB ==
    /\ FreshProvider
    /\ IdleCompare /\ IdleGet /\ IdleKeys /\ IdleServer
    /\ ctor = "start" /\ haltCh = "unset" /\ wg = 0
    /\ userDB = "unset" /\ spool = "unset" /\ workerPc = "none"
    /\ store \in PersistedStores
    /\ users \in IF store.usersBkt THEN {NoUsers, UsersInit} ELSE {NoUsers}
    /\ lastAdd = users
    /\ dbRes = NoCall

NextUserDB == DBNew \/ DBAdd \/ DBIsValid \/ DBClose

SpecUserDB == InitUserDB /\ [][NextUserDB]_vars

\* The corruption that the nil checks of boltuserdb.go:48-50 and 76-78 are
\* written for: the `users` bucket is gone from under an open handle.  No
\* operation of the database does this; it is a step of the environment.
DBLoseUsersBucket ==
    /\ userDB = "open" /\ panics = {}
    /\ store.usersBkt
    /\ store' = [store EXCEPT !.usersBkt = FALSE]
    /\ users' = NoUsers
    /\ UNCHANGED <<userDB, dbRes, lastAdd, panics>>
    /\ DBUnchanged

NextUserDBCorrupt == NextUserDB \/ DBLoseUsersBucket

SpecUserDBCorrupt == InitUserDB /\ [][NextUserDBCorrupt]_vars

(***************************************************************************)
(* subtle.ConstantTimeCompare as IsValid calls it, boltuserdb.go:55, one   *)
(* step per loop iteration.  Both operands are public keys of the fixed    *)
(* size: the stored one was written by Add from k.Bytes().                 *)
(***************************************************************************)
PublicKeys == [1..KeySize -> {0, 1, 2}]

\* everything but cmp
CmpUnchanged ==
    UNCHANGED <<ctor, haltCh, wg, chQ, chClosed, pkts, late, userDB, users,
                dbVars, spool, spoolQ, calls, sched, workerPc, pkt, disposed,
                path, haltPc, authPc, authRes, authSaw, panics, exited,
                got, keyFile, nodeKey, keyRes, srv>>

\* a comparison that returns at the first byte that differs
CmpLoop_EarlyExit ==
    /\ ~cmp.done /\ Len(cmp.x) = Len(cmp.y) /\ cmp.i < Len(cmp.x)
    /\ cmp' = IF cmp.x[cmp.i + 1] # cmp.y[cmp.i + 1]
              THEN [cmp EXCEPT !.done = TRUE, !.ret = 0]
              ELSE [cmp EXCEPT !.i = @ + 1]
    /\ CmpUnchanged

\* one iteration of the loop: v |= x[i] ^ y[i]
CmpLoop ==
    /\ ~cmp.done /\ Len(cmp.x) = Len(cmp.y) /\ cmp.i < Len(cmp.x)
    /\ cmp' = [cmp EXCEPT !.i = @ + 1,
                          !.v = IF @ # 0 \/ cmp.x[cmp.i + 1] # cmp.y[cmp.i + 1]
                                THEN 1 ELSE 0]
    /\ CmpUnchanged

\* the length check before the loop and the return after it
CmpReturn ==
    /\ ~cmp.done
    /\ Len(cmp.x) # Len(cmp.y) \/ cmp.i = Len(cmp.x)
    /\ cmp' = [cmp EXCEPT !.done = TRUE,
                          !.ret = IF Len(cmp.x) = Len(cmp.y) /\ cmp.v = 0
                                  THEN 1 ELSE 0]
    /\ CmpUnchanged

\* IsValid on a present username: any stored key, any presented key
InitCompare ==
    /\ FreshProvider
    /\ ctor = "running" /\ haltCh = "open" /\ wg = 1
    /\ userDB = "open" /\ spool = "open" /\ workerPc = "select"
    /\ users = UsersInit /\ store = StoreInit /\ dbRes = NoCall
    /\ lastAdd = UsersInit
    /\ IdleGet /\ IdleKeys /\ IdleServer
    /\ \E x \in PublicKeys, y \in PublicKeys :
         cmp = [x |-> x, y |-> y, i |-> 0, v |-> 0, done |-> FALSE, ret |-> 0]

NextCompare == CmpLoop \/ CmpReturn

SpecCompare == InitCompare /\ [][NextCompare]_vars

(***************************************************************************)
(* The spool on its own, src/unnamed/part_003: a caller that stores        *)
(* messages and SURB replies for two users and reads them back with Get.   *)
(***************************************************************************)
SpoolUsers == {<<1>>, <<1, 1>>}
SpoolMsgs == {<<1>>, <<2>>}

\* everything but spoolQ and got
SpoolUnchanged ==
    UNCHANGED <<ctor, haltCh, wg, chQ, chClosed, pkts, late, userDB, users,
                dbVars, spool, calls, sched, workerPc, pkt, disposed, path,
                haltPc, authPc, authRes, authSaw, panics, exited,
                cmp, keyFile, nodeKey, keyRes, srv>>

SpStoreMessage ==
    /\ spool = "open"
    /\ \E u \in SpoolUsers, m \in SpoolMsgs :
         /\ Len(spoolQ[u]) < MaxSpool
         /\ spoolQ' = StoreMessage(spoolQ, u, m)
    /\ UNCHANGED got
    /\ SpoolUnchanged

SpStoreSURBReply ==
    /\ spool = "open"
    /\ \E u \in SpoolUsers, id \in SurbIDs, m \in SpoolMsgs :
         /\ Len(spoolQ[u]) < MaxSpool
         /\ spoolQ' = StoreSURBReply(spoolQ, u, id, m)
    /\ UNCHANGED got
    /\ SpoolUnchanged

SpGet ==
    /\ spool = "open"
    /\ \E u \in SpoolUsers, advance \in BOOLEAN :
         LET r == Get(spoolQ, u, advance)
         IN /\ spoolQ' = r.spoolQ
            /\ got' = [called |-> TRUE, user |-> u, advance |-> advance,
                       msg |-> r.msg, surbID |-> r.surbID]
    /\ SpoolUnchanged

NextSpool == SpStoreMessage \/ SpStoreSURBReply \/ SpGet

SpecSpool == InitRunning /\ [][NextSpool]_vars

-----------------------------------------------------------------------------
\* The node keys (nodekey.go).  A key file is a sequence of items: PEM blocks
\* and runs of bytes that are not PEM.

keyType(n) == IF n = "identity" THEN "Ed25519 PRIVATE KEY" ELSE "X25519 PRIVATE KEY"

\* the length FromBytes accepts: an Ed25519 private key, an X25519 private key
PrivateKeySize(n) == IF n = "identity" THEN 64 ELSE 32

KeyBytes(len, v) == [i \in 1..len |-> v]

Garbage == [pem |-> FALSE, Type |-> "", Bytes |-> <<>>]

\* the nil *pem.Block
NilBlock == [pem |-> FALSE, Type |-> "nil", Bytes |-> <<>>]

PemBlock(t, b) == [pem |-> TRUE, Type |-> t, Bytes |-> b]

FileItems ==
    {Garbage} \cup {PemBlock(keyType(t), KeyBytes(PrivateKeySize(l), 7)) : t \in KeyNames, l \in KeyNames}

RECURSIVE ItemSeqs(_)
ItemSeqs(n) ==
    IF n = 0 THEN {<<>>}
    ELSE ItemSeqs(n - 1) \cup {Append(q, x) : q \in {r \in ItemSeqs(n - 1) : Len(r) = n - 1}, x \in FileItems}

KeyFiles ==
    {NoFile} \cup {[exists |-> TRUE, readable |-> r, items |-> q] : r \in BOOLEAN, q \in ItemSeqs(MaxFileItems)}

GeneratedKeys(n) == {KeyBytes(PrivateKeySize(n), v) : v \in {7, 9}}

\* pem.Decode: the first PEM block and what follows it; without a block, the
\* nil block and the whole input.
Decode(items) ==
    LET idx == {i \in 1..Len(items) : items[i].pem}
    IN IF idx = {} THEN [blk |-> NilBlock, rest |-> items]
       ELSE LET i == CHOOSE j \in idx : \A k \in idx : j <= k
            IN [blk |-> items[i], rest |-> SubSeq(items, i + 1, Len(items))]

\* initIdentity and initLink: the result, the key left in the Server and the
\* file left on disk.  gen is the key NewKeypair draws, gok whether it
\* succeeds (it returns a nil key with its error), wok whether WriteFile
\* succeeds.
initKey(n, file, gen, gok, wok) ==
    IF file.exists /\ file.readable THEN
        LET d == Decode(file.items)
        IN IF Len(d.rest) # 0 THEN [res |-> "error", key |-> NilBytes, file |-> file]
           ELSE IF d.blk = NilBlock THEN [res |-> "panic", key |-> NilBytes, file |-> file]
           ELSE IF d.blk.Type # keyType(n) THEN [res |-> "error", key |-> NilBytes, file |-> file]
           ELSE IF Len(d.blk.Bytes) # PrivateKeySize(n)
                THEN [res |-> "error", key |-> <<>>, file |-> file]
           ELSE [res |-> "ok", key |-> d.blk.Bytes, file |-> file]
    ELSE IF file.exists THEN [res |-> "error", key |-> NilBytes, file |-> file]
    ELSE IF ~gok THEN [res |-> "error", key |-> NilBytes, file |-> file]
    ELSE IF wok
         THEN [res |-> "ok", key |-> gen,
               file |-> [exists |-> TRUE, readable |-> TRUE, items |-> <<PemBlock(keyType(n), gen)>>]]
         ELSE [res |-> "error", key |-> gen, file |-> file]

KeyUnchanged ==
    UNCHANGED <<ctor, haltCh, wg, chQ, chClosed, pkts, late, userDB, users,
                dbVars, spool, spoolQ, calls, sched, workerPc, pkt, disposed,
                path, haltPc, authPc, authRes, authSaw, exited,
                cmp, got, srv>>

InitKeyStep(n) ==
    \E gen \in GeneratedKeys(n), gok \in BOOLEAN, wok \in BOOLEAN :
        LET r == initKey(n, keyFile[n], gen, gok, wok)
        IN /\ keyFile' = [keyFile EXCEPT ![n] = r.file]
           /\ nodeKey' = [nodeKey EXCEPT ![n] = r.key]
           /\ keyRes' = [keyRes EXCEPT ![n] = r.res]
           /\ panics' = IF r.res = "panic" THEN panics \cup {n} ELSE panics
           /\ KeyUnchanged

\* New calls initIdentity first, and initLink only when that succeeded.
InitIdentity ==
    /\ panics = {}
    /\ keyRes["identity"] = "none"
    /\ InitKeyStep("identity")

InitLink ==
    /\ panics = {}
    /\ keyRes["identity"] = "ok" /\ keyRes["link"] = "none"
    /\ InitKeyStep("link")

InitNodeKey ==
    /\ FreshProvider
    /\ IdleCompare /\ IdleGet /\ IdleServer
    /\ ctor = "start" /\ haltCh = "unset" /\ wg = 0
    /\ userDB = "unset" /\ spool = "unset" /\ workerPc = "none"
    /\ users = UsersInit /\ store = StoreInit /\ dbRes = NoCall
    /\ lastAdd = UsersInit
    /\ keyFile \in [KeyNames -> KeyFiles]
    /\ nodeKey = [n \in KeyNames |-> NilBytes]
    /\ keyRes = [n \in KeyNames |-> "none"]

NextNodeKey == InitIdentity \/ InitLink

SpecNodeKey == InitNodeKey /\ [][NextNodeKey]_vars

-----------------------------------------------------------------------------
\* Server.Shutdown and Server.halt (server.go).  srv.pc is the position in
\* halt (0: Shutdown not called), srv.halted the components whose halt has
\* returned, srv.inProvider whether s.provider.halt() has been called and
\* srv.schedAt the number of packets the scheduler had been handed by then.

\* a shutdown sequence that halts the provider before the Sphinx workers
HaltOrder_ProviderBeforeWorkers ==
    <<"periodic", "management", "listeners", "connector", "provider",
      "cryptoWorkers", "scheduler", "pki", "mixKeys", "top">>

\* the order of Server.halt
HaltOrder ==
    <<"periodic", "management", "listeners", "connector", "cryptoWorkers",
      "provider", "scheduler", "pki", "mixKeys", "top">>

\* A halted listener has no connection handler left to call
\* authenticateClient, a halted Sphinx worker submits no packet.

SrvUnchanged ==
    UNCHANGED <<ctor, haltCh, wg, chQ, chClosed, pkts, late, userDB, users,
                dbVars, spool, spoolQ, calls, sched, workerPc, pkt, disposed,
                path, haltPc, authPc, authRes, authSaw, panics, exited,
                cmp, got, keyFile, nodeKey, keyRes>>

SrvHalting == srv.pc \in 1..Len(HaltOrder)

\* what a step of halt leaves alone besides the keys and the panics
HaltFrame ==
    UNCHANGED <<ctor, haltCh, wg, chQ, chClosed, pkts, late, userDB, users,
                dbVars, spool, spoolQ, calls, sched, workerPc, pkt, disposed,
                path, haltPc, authPc, authRes, authSaw, exited,
                cmp, got, keyFile, keyRes>>

\* the keys New has loaded or generated before it constructs anything else
LoadedKey(n) == KeyBytes(PrivateKeySize(n), 7)

LoadedKeys ==
    /\ keyFile = [n \in KeyNames |->
                    [exists |-> TRUE, readable |-> TRUE,
                     items |-> <<PemBlock(keyType(n), LoadedKey(n))>>]]
    /\ nodeKey = [n \in KeyNames |-> LoadedKey(n)]
    /\ keyRes = [n \in KeyNames |-> "ok"]

\* One statement group of halt.  Every component but the last is halted
\* only when it is not nil.  The last group has no such test:
\* s.inboundPackets.Close() dereferences a nil *InfiniteChannel, and
\* s.linkKey.Reset(), s.identityKey.Reset() zero the keys (and dereference a
\* nil key).
HaltGroup ==
    LET c == HaltOrder[srv.pc]
    IN IF c # "top"
       THEN /\ srv' = [srv EXCEPT !.pc = @ + 1,
                                  !.halted = IF c \in srv.con.built THEN @ \cup {c} ELSE @]
            /\ UNCHANGED <<nodeKey, panics>>
       ELSE IF "inboundPackets" \notin srv.con.built \/ \E n \in KeyNames : nodeKey[n] = NilBytes
       THEN /\ panics' = panics \cup {"Server.halt"}
            /\ UNCHANGED <<srv, nodeKey>>
       ELSE /\ srv' = [srv EXCEPT !.pc = @ + 1, !.halted = @ \cup {c}]
            /\ nodeKey' = [n \in KeyNames |-> KeyBytes(PrivateKeySize(n), 0)]
            /\ UNCHANGED panics

\* s.haltOnce.Do(func() { s.halt() })
Shutdown ==
    /\ Live /\ srv.pc = 0
    /\ srv' = [srv EXCEPT !.pc = 1]
    /\ SrvUnchanged

\* the halt of a component other than the provider
SrvHaltComponent ==
    /\ Live /\ SrvHalting
    /\ HaltOrder[srv.pc] # "provider"
    /\ HaltGroup
    /\ HaltFrame

\* s.provider.halt() is called
SrvProviderHaltCall ==
    /\ Live /\ SrvHalting
    /\ HaltOrder[srv.pc] = "provider" /\ ~srv.inProvider
    /\ srv' = [srv EXCEPT !.inProvider = TRUE, !.schedAt = Len(sched)]
    /\ SrvUnchanged

\* the steps of provider.halt, run by the one caller haltOnce lets through
SrvProviderHalt ==
    /\ srv.inProvider /\ "provider" \notin srv.halted
    /\ Halt(1)

\* s.provider.halt() returns; s.provider = nil
SrvProviderHaltReturn ==
    /\ Live /\ SrvHalting
    /\ srv.inProvider /\ "provider" \notin srv.halted
    /\ haltPc[1] = "returned"
    /\ srv' = [srv EXCEPT !.pc = @ + 1, !.halted = @ \cup {"provider"}]
    /\ SrvUnchanged

\* the packets of the shutdown specification: a message that is dropped for
\* its recipient, one that is stored and one that is stored and acknowledged
ServerPackets ==
    {p \in SmallPackets :
        /\ p.surbReply = NilBytes
        /\ p.payload \in {Block(0, 0, 0, <<1>>), Block(1, 0, 1, <<2>>)}}

\* the Sphinx workers hand packets to the provider while they run
SrvSubmit == "cryptoWorkers" \notin srv.halted /\ Submit(ServerPackets, MaxPackets)

\* the listeners' connection handlers authenticate while the listeners run
SrvAuthCall == "listeners" \notin srv.halted /\ \E a \in AuthCallers : AuthCall(a)

NextServerHalt ==
    \/ Shutdown
    \/ SrvHaltComponent
    \/ SrvProviderHaltCall
    \/ SrvProviderHalt
    \/ SrvProviderHaltReturn
    \/ SrvSubmit
    \/ SrvAuthCall
    \/ \E a \in AuthCallers : AuthIsValid(a)
    \/ Worker
    \/ ProcessExit

\* The server the startup of the specification leaves: every component up,
\* the provider running with its spool attached, both keys loaded.  New
\* does not return it for a provider (newProvider panics, provider.go:214).
InitServerUp ==
    /\ FreshProvider
    /\ IdleCompare /\ IdleGet /\ LoadedKeys /\ IdleServer
    /\ users = UsersInit /\ store = StoreInit /\ dbRes = NoCall
    /\ lastAdd = UsersInit
    /\ ctor = "running" /\ haltCh = "open" /\ wg = 1
    /\ userDB = "open" /\ spool = "open" /\ workerPc = "select"

SpecServerHalt == InitServerUp /\ [][NextServerHalt]_vars

-----------------------------------------------------------------------------
\* New (server.go), from the point where failures are cleaned up by the
\* deferred Shutdown.  con.pc is the position in New, con.built the
\* components constructed so far, con.once whether haltOnce has fired,
\* con.halts how many times the body of halt was entered, con.calls how
\* many times the caller of a successful New has called Shutdown.

Configs ==
    [generateOnly : BOOLEAN, management : BOOLEAN, isProvider : BOOLEAN,
     addresses : 0..MaxListeners]

\* the components New constructs after the provider, in its order
BuildOrder == <<"scheduler", "inboundPackets", "cryptoWorkers", "connector">>

\* the mix keys are loaded before the deferred cleanup is installed
ConStart(cfg) ==
    [cfg |-> cfg, pc |-> "generateOnly", built |-> {"mixKeys"}, once |-> FALSE,
     halts |-> 0, calls |-> 0, res |-> "none"]

ConUnchanged ==
    UNCHANGED <<ctor, haltCh, wg, chQ, chClosed, pkts, late, userDB, users,
                dbVars, spool, spoolQ, calls, sched, workerPc, pkt, disposed,
                path, haltPc, authPc, authRes, authSaw, exited,
                cmp, got, keyFile, nodeKey, keyRes>>

ConRunning == ~exited /\ panics = {}

ConTo(pc) == srv' = [srv EXCEPT !.con.pc = pc]

ConBuilt(c, pc) == srv' = [srv EXCEPT !.con.pc = pc, !.con.built = @ \cup {c}]

\* if s.cfg.Debug.GenerateOnly { return nil, ErrGenerateOnly }
NewGenerateOnly ==
    /\ ConRunning /\ srv.con.pc = "generateOnly"
    /\ ConTo(IF srv.con.cfg.generateOnly THEN "cleanup" ELSE "management")
    /\ UNCHANGED panics /\ ConUnchanged

\* thwack.New, when the management interface is enabled
NewManagement ==
    /\ ConRunning /\ srv.con.pc = "management"
    /\ IF srv.con.cfg.management
       THEN \E ok \in BOOLEAN :
              IF ok THEN ConBuilt("management", "pki") ELSE ConTo("cleanup")
       ELSE ConTo("pki")
    /\ UNCHANGED panics /\ ConUnchanged

\* s.pki = newPKI(s, pkiimpl)
NewPKI ==
    /\ ConRunning /\ srv.con.pc = "pki"
    /\ ConBuilt("pki", "provider")
    /\ UNCHANGED panics /\ ConUnchanged

\* s.provider, err = newProvider(s)
NewCallsNewProvider ==
    /\ ConRunning /\ srv.con.pc = "provider"
    /\ srv.con.cfg.isProvider
    /\ NewProvider

\* newProvider has returned an error, or the server is no provider
NewAfterProvider ==
    /\ ConRunning /\ srv.con.pc = "provider"
    /\ ~srv.con.cfg.isProvider \/ ctor = "failed"
    /\ ConTo(IF srv.con.cfg.isProvider THEN "cleanup" ELSE BuildOrder[1])
    /\ UNCHANGED panics /\ ConUnchanged

\* newScheduler, NewInfiniteChannel, newCryptoWorker, newConnector and
\* s.pki.startWorker()
NewBuild ==
    /\ ConRunning
    /\ \E i \in 1..Len(BuildOrder) :
         /\ srv.con.pc = BuildOrder[i]
         /\ ConBuilt(BuildOrder[i],
                     IF i < Len(BuildOrder) THEN BuildOrder[i + 1] ELSE "listeners")
    /\ UNCHANGED panics /\ ConUnchanged

\* the listeners: k of them come up, and a failure of the next one ends New
NewListeners ==
    /\ ConRunning /\ srv.con.pc = "listeners"
    /\ \E k \in 0..srv.con.cfg.addresses :
         srv' = [srv EXCEPT
                   !.con.pc = IF k < srv.con.cfg.addresses THEN "cleanup" ELSE "periodic",
                   !.con.built = IF k > 0 THEN @ \cup {"listeners"} ELSE @]
    /\ UNCHANGED panics /\ ConUnchanged

\* newPeriodicTimer, s.management.Start(), isOk = true, return s, nil
NewPeriodic ==
    /\ ConRunning /\ srv.con.pc = "periodic"
    /\ srv' = [srv EXCEPT !.con.pc = "ok", !.con.built = @ \cup {"periodic"},
                          !.con.res = "ok"]
    /\ UNCHANGED panics /\ ConUnchanged

\* s.haltOnce.Do(func() { s.halt() }): the first call enters halt
ConShutdown ==
    srv' = [srv EXCEPT !.pc = IF srv.con.once THEN @ ELSE 1,
                       !.con.once = TRUE,
                       !.con.halts = IF srv.con.once THEN @ ELSE @ + 1,
                       !.con.calls = IF srv.con.pc = "ok" THEN @ + 1 ELSE @]

\* newProvider has panicked inside New: the panic unwinds New and runs its
\* deferred function
ConUnwinding == srv.con.pc = "provider" /\ ctor = "panicked" /\ panics = {"newProvider"}

\* the deferred function of New: if !isOk { s.Shutdown() }.  It runs when
\* New returns an error and when a panic unwinds New.
NewDeferredShutdown ==
    /\ ~exited /\ ~srv.con.once
    /\ (panics = {} /\ srv.con.pc = "cleanup") \/ ConUnwinding
    /\ ConShutdown
    /\ UNCHANGED panics /\ ConUnchanged

\* Shutdown called by the caller that New returned the Server to
CallerShutdown ==
    /\ ConRunning /\ srv.con.pc = "ok" /\ srv.con.calls < MaxShutdownCalls
    /\ srv.con.once => srv.pc > Len(HaltOrder)
    /\ ConShutdown
    /\ UNCHANGED panics /\ ConUnchanged

\* halt as run by the deferred function or by the caller.  No provider is
\* constructed on this path (newProvider returns none), so its group is the
\* skipped nil test.
ConHaltStep ==
    /\ ~exited /\ srv.con.once /\ SrvHalting
    /\ panics = {} \/ ConUnwinding
    /\ HaltGroup
    /\ HaltFrame

\* The runtime ends the process once the panicking goroutine has run its
\* deferred function: halt has panicked in turn, or it has returned.
NewProcessExit ==
    /\ panics # {} /\ ~exited
    /\ "Server.halt" \in panics \/ (srv.con.once /\ ~SrvHalting)
    /\ exited' = TRUE
    /\ UNCHANGED <<srv, panics, nodeKey>>
    /\ UNCHANGED <<ctor, haltCh, wg, chQ, chClosed, pkts, late, userDB, users,
                   dbVars, spool, spoolQ, calls, sched, workerPc, pkt, disposed,
                   path, haltPc, authPc, authRes, authSaw, cmp, got, keyFile,
                   keyRes>>

\* the deferred Shutdown has returned: New returns nil and the error
NewReturnsError ==
    /\ ConRunning /\ srv.con.pc = "cleanup"
    /\ srv.con.once /\ srv.pc > Len(HaltOrder)
    /\ srv' = [srv EXCEPT !.con.pc = "failed", !.con.res = "error"]
    /\ UNCHANGED panics /\ ConUnchanged

InitServerNew ==
    /\ FreshProvider
    /\ IdleCompare /\ IdleGet /\ LoadedKeys
    /\ ctor = "start" /\ haltCh = "unset" /\ wg = 0
    /\ userDB = "unset" /\ spool = "unset" /\ workerPc = "none"
    /\ users = UsersInit /\ store = StoreInit /\ dbRes = NoCall
    /\ lastAdd = UsersInit
    /\ \E cfg \in Configs :
         srv = [pc |-> 0, halted |-> {}, inProvider |-> FALSE, schedAt |-> 0,
                con |-> ConStart(cfg)]

NextServerNew ==
    \/ NewGenerateOnly
    \/ NewManagement
    \/ NewPKI
    \/ NewCallsNewProvider
    \/ NewAfterProvider
    \/ NewBuild
    \/ NewListeners
    \/ NewPeriodic
    \/ NewDeferredShutdown
    \/ CallerShutdown
    \/ ConHaltStep
    \/ NewReturnsError
    \/ NewProcessExit

SpecServerNew == InitServerNew /\ [][NextServerNew]_vars

(***************************************************************************)
(* Vocabulary of the properties.                                           *)
(***************************************************************************)
Range(f) == {f[i] : i \in DOMAIN f}
\* the worker's positions between taking a packet and letting go of it
HoldingPcs == {"recipient", "store", "ack", "send", "disposeDrop", "dispose"}
WorkerRunning == workerPc \in {"select"} \cup HoldingPcs
InHand(id) == pkt = id /\ workerPc \in HoldingPcs
Closed(handle) == handle \in {"closed", "nil"}
HaltReturned == \E h \in HaltCallers : haltPc[h] = "returned"
StoredPaths == {"surbStored", "storedNoAck", "storedAck", "ackFailed"}

\* C1: halt raises the halt signal first, waits for the worker to exit, then
\* closes the spool and only then the credential directory: the directory is
\* never closed before the spool, and neither is closed while the worker is
\* still running.
C1_ShutdownOrder ==
    /\ Closed(spool) => haltCh = "closed" /\ ~WorkerRunning
    /\ Closed(userDB) => haltCh = "closed" /\ ~WorkerRunning
    /\ Closed(userDB) => Closed(spool)

\* C2: after the halt signal the worker leaves its loop without faulting, and
\* it never carries a nil packet into the dispatch code.
C2_WorkerExitsCleanly ==
    /\ "worker" \notin panics
    /\ ~(workerPc = "recipient" /\ pkt = NoPacket)

\* C3: every packet the worker has dequeued is disposed exactly once before
\* the worker takes the next packet: a packet still queued or in the worker's
\* hands has not been disposed, and every packet the worker is done with has
\* been disposed once, whatever path its dispatch took.
C3_DisposedExactlyOnce ==
    \A id \in DOMAIN pkts :
        IF id \in Range(chQ) \/ InHand(id)
        THEN disposed[id] = 0
        ELSE disposed[id] = 1 /\ path[id] # "none"

\* C3 witness: the worker is back at its select with two packets behind it,
\* one dropped for an unknown recipient and one stored and acknowledged, each
\* disposed once.
C3_Witness ==
    /\ workerPc = "select"
    /\ \E i, j \in DOMAIN pkts :
         /\ path[i] = "unknown" /\ disposed[i] = 1
         /\ path[j] = "storedAck" /\ disposed[j] = 1

\* C4: once halt has returned, every packet that was enqueued by onPacket
\* has been disposed, the packets still queued at the halt signal included.
C4_AllSubmittedDisposed ==
    HaltReturned => \A id \in DOMAIN pkts : disposed[id] >= 1

\* C5: once the halt signal has been raised, no packet enqueued after it is
\* written to the spool, and the storage is not closed while the worker still
\* has a packet in its hands.
C5_NoStoreAfterHalt ==
    /\ \A id \in late : path[id] \notin StoredPaths
    /\ Closed(spool) \/ Closed(userDB) => \A id \in DOMAIN pkts : ~InHand(id)

\* C6: halt is idempotent: a second invocation, after or concurrently with the
\* first, does not fault, and at most one invocation performs the teardown.
C6_HaltIdempotent ==
    /\ "halt" \notin panics
    /\ \A h \in HaltCallers : haltPc[h] # "panicked"
    /\ Cardinality({h \in HaltCallers : haltPc[h] \notin {"idle", "returned", "panicked"}}) <= 1

\* C7: no authenticateClient call uses a credential directory that halt has
\* closed or released, and halt closes the directory only when no
\* authenticateClient call is active.
C7_AuthNeverOnClosedDirectory ==
    /\ \A a \in AuthCallers : authSaw[a] \in {"none", "open"}
    /\ Closed(userDB) => \A a \in AuthCallers : authPc[a] # "called"

\* C8: newProvider, when the user database opens, returns a provider without
\* faulting, with the directory open, the spool attached and one worker
\* started.
C8_NewProviderSucceeds ==
    ctor \notin {"start", "failed"} =>
        /\ ctor = "running"
        /\ "newProvider" \notin panics
        /\ userDB # "unset" /\ spool # "unset" /\ workerPc # "none"

\* the packet in the worker's hands, if any, satisfies Cond
Handling(Cond(_)) ==
    /\ pkt # NoPacket
    /\ workerPc \in HoldingPcs
    /\ Cond(pkts[pkt])

UnknownRecipient(p) == TrimRight(p.recipient) \notin DOMAIN users

MalformedUserMessage(p) ==
    /\ TrimRight(p.recipient) \in DOMAIN users
    /\ p.surbReply = NilBytes
    /\ \/ Len(p.payload) < hdrLength
       \/ p.payload[2] # 0
       \/ p.payload[1] \notin {0, 1}

\* C9: while the worker handles a packet whose NUL-stripped recipient is not
\* in the directory, no step changes the spool or the scheduler's input,
\* whatever the packet's kind and payload.
C9_UnknownRecipientDropped ==
    [][Handling(UnknownRecipient) => UNCHANGED <<spoolQ, calls, sched>>]_vars

\* C9 witness: a user message for an unknown recipient, whose payload is a
\* well-formed block with a valid SURB, has been dispatched and disposed, and
\* the spool and the scheduler's input are empty.
C9_Witness ==
    \E id \in DOMAIN pkts :
        /\ UnknownRecipient(pkts[id])
        /\ pkts[id].surbReply = NilBytes
        /\ pkts[id].payload = Block(flagsSURB, reserved, 1, <<1>>)
        /\ disposed[id] = 1
        /\ sched = <<>>
        /\ \A n \in Names : spoolQ[n] = <<>>

\* C10: while the worker handles a user message for an existing recipient
\* whose payload is shorter than the header, or has a non-zero reserved byte,
\* or has a flags byte other than 0 and 1, no step changes the spool or the
\* scheduler's input.
C10_MalformedBlockDropped ==
    [][Handling(MalformedUserMessage) => UNCHANGED <<spoolQ, calls, sched>>]_vars

\* C10 witness: a user message for the registered user with flags = has-SURB,
\* a valid SURB, a ciphertext and a non-zero reserved byte has been dispatched
\* and disposed, and nothing was stored or scheduled.
C10_Witness ==
    \E id \in DOMAIN pkts :
        /\ MalformedUserMessage(pkts[id])
        /\ pkts[id].payload = Block(flagsSURB, 1, 1, <<1>>)
        /\ disposed[id] = 1
        /\ sched = <<>>
        /\ \A n \in Names : spoolQ[n] = <<>>

(***************************************************************************)
(* Vocabulary of the per-packet properties.                                *)
(***************************************************************************)
\* the worker has dispatched packet id
Dispatched(id) == path[id] # "none"

\* the spool calls made while handling packet id
CallsFor(id) == SelectSeq(calls, LAMBDA c : c.pkt = id)

\* the payload's bytes from the fixed header length onward
Ciphertext(p) ==
    [i \in 1..(Len(p.payload) - (SphinxPlaintextHeaderLength + SURBLength)) |->
        p.payload[SphinxPlaintextHeaderLength + SURBLength + i]]

\* the SURB area of the payload
SURBOf(p) == [i \in 1..SURBLength |-> p.payload[SphinxPlaintextHeaderLength + i]]

\* a user message for an existing recipient with a well-formed block
\* carrying the given flags
UserMessage(p, flags) ==
    /\ TrimRight(p.recipient) \in DOMAIN users
    /\ p.surbReply = NilBytes
    /\ Len(p.payload) >= SphinxPlaintextHeaderLength + SURBLength
    /\ p.payload[1] = flags
    /\ p.payload[2] = 0

\* C11: once a padding-flagged user message for an existing recipient has
\* been dispatched, the worker has made exactly one spool call for it,
\* StoreMessage with the stripped recipient and the payload from the header
\* length onward; the recipient's queue holds that ciphertext and nothing of
\* the SURB area when the store succeeded; and the scheduler got nothing.
C11_PaddingMessageStored ==
    \A id \in DOMAIN pkts :
        UserMessage(pkts[id], 0) /\ Dispatched(id) =>
            LET mine == CallsFor(id)
                n == TrimRight(pkts[id].recipient)
                ct == Ciphertext(pkts[id])
            IN /\ Len(mine) = 1
               /\ mine[1].op = "StoreMessage"
               /\ mine[1].user = n
               /\ mine[1].msg = ct
               /\ spoolQ[n] = IF mine[1].ok
                              THEN <<[surbID |-> NilBytes, msg |-> ct]>>
                              ELSE <<>>
               /\ sched = <<>>

\* C11 witness: a padding message whose SURB area is not zero and whose
\* ciphertext is one byte has been stored for the registered user and
\* disposed.
C11_Witness ==
    \E id \in DOMAIN pkts :
        /\ UserMessage(pkts[id], 0)
        /\ pkts[id].recipient = Padded(<<1>>)
        /\ pkts[id].payload = Block(0, 0, 1, <<2>>)
        /\ disposed[id] = 1
        /\ spoolQ[<<1>>] = <<[surbID |-> NilBytes, msg |-> <<2>>]>>

\* C12: once a SURB-flagged user message for an existing recipient with a
\* SURB the collaborator accepts has been dispatched and its store succeeded,
\* the scheduler has been handed exactly one packet, and that ack carries
\* the originating packet's delay and node delay.
C12_AckCarriesDelay ==
    \A id \in DOMAIN pkts :
        /\ UserMessage(pkts[id], 1)
        /\ ~NewPacketFromSURB(SURBOf(pkts[id]), ackPayload).err
        /\ Dispatched(id)
        /\ \E i \in DOMAIN calls : calls[i].pkt = id /\ calls[i].ok
        => /\ Len(sched) = 1
           /\ sched[1].delay = pkts[id].delay
           /\ \E i \in DOMAIN sched[1].cmds :
                 /\ sched[1].cmds[i].cmd = "NodeDelay"
                 /\ sched[1].cmds[i].delay = pkts[id].nodeDelay

\* C12 witness: a stored SURB-flagged message with the largest delay has
\* been disposed and its ack is with the scheduler.
C12_Witness ==
    \E id \in DOMAIN pkts :
        /\ UserMessage(pkts[id], 1)
        /\ pkts[id].nodeDelay = MaxDelay
        /\ disposed[id] = 1
        /\ Len(sched) = 1
        /\ sched[1].delay = pkts[id].delay
        /\ spoolQ[<<1>>] # <<>>

\* C13: the scheduler has been handed at most as many packets as there are
\* packets whose StoreMessage call succeeded; a packet whose StoreMessage
\* call failed leaves the scheduler's input empty.
C13_NoAckWithoutStore ==
    /\ Len(sched) <= Len(SelectSeq(calls, LAMBDA c : c.op = "StoreMessage" /\ c.ok))
    /\ \A id \in DOMAIN pkts :
         (\E i \in DOMAIN calls : calls[i].pkt = id /\ ~calls[i].ok) => sched = <<>>

\* C13 witness: a SURB-flagged message with a valid SURB whose store failed
\* has been disposed; nothing is stored and nothing is scheduled.
C13_Witness ==
    \E id \in DOMAIN pkts :
        /\ UserMessage(pkts[id], 1)
        /\ ~NewPacketFromSURB(SURBOf(pkts[id]), ackPayload).err
        /\ disposed[id] = 1
        /\ Len(calls) = 1 /\ calls[1].op = "StoreMessage" /\ ~calls[1].ok
        /\ sched = <<>>
        /\ \A n \in Names : spoolQ[n] = <<>>

\* a SURB reply for an existing recipient
SURBReply(p) ==
    /\ TrimRight(p.recipient) \in DOMAIN users
    /\ p.surbReply # NilBytes

\* C14: once a SURB reply for an existing recipient has been dispatched, the
\* worker has made exactly one spool call for it, StoreSURBReply with the
\* stripped recipient, the packet's SURB-reply id and the whole payload,
\* whatever the payload's length and bytes; the queue holds that entry when
\* the store succeeded; the scheduler got nothing.
C14_SURBReplyStoredWhole ==
    \A id \in DOMAIN pkts :
        SURBReply(pkts[id]) /\ Dispatched(id) =>
            LET mine == CallsFor(id)
                n == TrimRight(pkts[id].recipient)
            IN /\ Len(mine) = 1
               /\ mine[1].op = "StoreSURBReply"
               /\ mine[1].user = n
               /\ mine[1].id = pkts[id].surbReply
               /\ mine[1].msg = pkts[id].payload
               /\ spoolQ[n] = IF mine[1].ok
                              THEN <<[surbID |-> pkts[id].surbReply,
                                      msg |-> pkts[id].payload]>>
                              ELSE <<>>
               /\ sched = <<>>

\* C14 witness: a SURB reply whose payload is a single byte, shorter than the
\* header, has been stored whole under its id and disposed.
C14_Witness ==
    \E id \in DOMAIN pkts :
        /\ SURBReply(pkts[id])
        /\ pkts[id].payload = <<2>>
        /\ disposed[id] = 1
        /\ spoolQ[<<1>>] = <<[surbID |-> pkts[id].surbReply, msg |-> <<2>>]>>

\* C14 witness, second case: a SURB reply whose payload has the length of a
\* block and a non-zero reserved byte has been stored whole.
C14_WitnessReserved ==
    \E id \in DOMAIN pkts :
        /\ SURBReply(pkts[id])
        /\ pkts[id].payload = Block(1, 1, 1, <<>>)
        /\ disposed[id] = 1
        /\ spoolQ[<<1>>] = <<[surbID |-> pkts[id].surbReply,
                               msg |-> pkts[id].payload]>>

\* the name a recipient field stands for: the field is the name followed by
\* NUL bytes only, and the name does not end in NUL
Stripped(field) ==
    CHOOSE n \in SeqsUpTo(NameBytes, RecipientWidth) :
        /\ Padded(n) = field
        /\ n = <<>> \/ n[Len(n)] # 0

\* a packet that is stored when its recipient exists and the store succeeds:
\* a SURB reply, or a user message with a well-formed block
Storable(p) ==
    \/ p.surbReply # NilBytes
    \/ /\ Len(p.payload) >= SphinxPlaintextHeaderLength + SURBLength
       /\ p.payload[1] \in {0, 1}
       /\ p.payload[2] = 0

\* C15: every spool call made for a packet names the packet's recipient
\* field with its trailing NUL bytes removed and nothing else changed, and a
\* storable packet is handed to the spool exactly when that name is in the
\* directory.
C15_RecipientStripped ==
    \A id \in DOMAIN pkts :
        Dispatched(id) =>
            /\ \A i \in DOMAIN calls :
                 calls[i].pkt = id => calls[i].user = Stripped(pkts[id].recipient)
            /\ Storable(pkts[id]) =>
                 (CallsFor(id) # <<>> <=> Stripped(pkts[id].recipient) \in DOMAIN users)

\* C15 witness: a packet whose recipient field is the registered name
\* followed by NUL padding has been stored under exactly the registered name.
C15_Witness ==
    \E id \in DOMAIN pkts :
        /\ pkts[id].recipient = Padded(<<1>>)
        /\ pkts[id].recipient # <<1>>
        /\ disposed[id] = 1
        /\ spoolQ[<<1>>] # <<>>
        /\ Len(calls) = 1 /\ calls[1].user = <<1>> /\ calls[1].ok

\* the spool entry a successful call leaves
EntryOf(c) == [surbID |-> c.id, msg |-> c.msg]

\* the successful calls that named user n, in the order they were made
StoredFor(n) == SelectSeq(calls, LAMBDA c : c.ok /\ c.user = n)

\* C16: packets are numbered in submission order.  The queue holds them in
\* that order, behind every packet the worker has taken; a packet is
\* dispatched only when every earlier one has been dispatched and disposed;
\* the spool calls are made in submission order; and every recipient's queue
\* is exactly the entries of the successful calls for it, in that order.
C16_SubmissionOrder ==
    /\ \A i, j \in DOMAIN chQ : i < j => chQ[i] < chQ[j]
    /\ \A i \in DOMAIN chQ : \A id \in DOMAIN pkts :
         (Dispatched(id) \/ InHand(id)) => id < chQ[i]
    /\ \A id \in DOMAIN pkts : Dispatched(id) \/ InHand(id) =>
         \A j \in 1..(id - 1) : Dispatched(j) /\ disposed[j] = 1
    /\ \A i, j \in DOMAIN calls : i < j => calls[i].pkt < calls[j].pkt
    /\ \A n \in Names :
         spoolQ[n] = [i \in 1..Len(StoredFor(n)) |-> EntryOf(StoredFor(n)[i])]

\* C16 witness: a SURB reply and then a padding message were submitted for
\* the registered user, both are stored and disposed, and the reply's entry
\* is ahead of the message's in the user's queue.
C16_Witness ==
    /\ Len(pkts) = 2
    /\ SURBReply(pkts[1]) /\ UserMessage(pkts[2], 0)
    /\ disposed[1] = 1 /\ disposed[2] = 1
    /\ Len(spoolQ[<<1>>]) = 2
    /\ spoolQ[<<1>>][1] = [surbID |-> pkts[1].surbReply, msg |-> pkts[1].payload]
    /\ spoolQ[<<1>>][2] = [surbID |-> NilBytes, msg |-> Ciphertext(pkts[2])]

(***************************************************************************)
(* Vocabulary of the user database properties.                             *)
(***************************************************************************)
\* arguments of valid length: a username that is not nil and not longer than
\* the maximum, and a key
ValidLength(u, k) == u # NilBytes /\ Len(u) <= MaxUsernameSize /\ k # NilBytes

\* a username Add must refuse
InvalidUsername(u) == u = NilBytes \/ u = <<>> \/ Len(u) > MaxUsernameSize

\* C17: whenever IsValid has just been asked about a username and key of
\* valid length, it answered true exactly when the most recent successful
\* Add for that username was made with that key.
C17_IsValidMatchesLastAdd ==
    dbRes.op = "IsValid" /\ ValidLength(dbRes.u, dbRes.k) =>
        /\ dbRes.ret \in {"true", "false"}
        /\ dbRes.ret = "true" <=>
              (dbRes.u \in DOMAIN lastAdd /\ lastAdd[dbRes.u] = dbRes.k)

\* C17 witness: the longest valid username, which no file starts with, has
\* been added with the second key and IsValid has answered true for it.
C17_Witness ==
    /\ dbRes = DBCalled("IsValid", Full, <<2>>, "true")
    /\ Full \in DOMAIN lastAdd /\ lastAdd[Full] = <<2>>

\* C17 witness, second case: IsValid has answered false for the key the
\* registered user started with, after an Add with another key.
C17_WitnessOverwritten ==
    /\ dbRes = DBCalled("IsValid", <<1>>, <<1>>, "false")
    /\ <<1>> \in DOMAIN lastAdd /\ lastAdd[<<1>>] = <<2>>

\* the step is an Add with an invalid username or no key
RejectedAdd ==
    /\ dbRes'.op = "Add"
    /\ InvalidUsername(dbRes'.u) \/ dbRes'.k = NilBytes

\* C18 as stated: an Add with invalid arguments returns an error and leaves
\* the `users` bucket unchanged, and afterwards IsValid for that username
\* answers false for every key.
C18_RejectedAddThenFalse ==
    [][RejectedAdd =>
         /\ dbRes'.ret \notin {"none", "panic"}
         /\ users' = users
         /\ \A k \in DBKeys :
              IsValidOutcome(store', users', dbRes'.u, k) = "false"]_vars

\* C18, amended: an Add with invalid arguments returns an error and leaves
\* the `users` bucket unchanged; afterwards IsValid with the same arguments
\* answers false, and for an invalid username it answers false for every
\* key.
C18_RejectedAddChangesNothing ==
    [][RejectedAdd =>
         /\ dbRes'.ret \notin {"none", "panic"}
         /\ users' = users
         /\ IsValidOutcome(store', users', dbRes'.u, dbRes'.k) = "false"
         /\ InvalidUsername(dbRes'.u) =>
              \A k \in DBKeys :
                  IsValidOutcome(store', users', dbRes'.u, k) = "false"]_vars

\* C18 witness: an Add without a key for the registered user has been
\* refused, and the user's entry is still there.
C18_Witness ==
    /\ dbRes = DBCalled("Add", <<1>>, NilBytes, "must provide a public key")
    /\ users = UsersInit

\* C18 witness, second case: an Add with the empty username has been refused
\* by the bucket.
C18_WitnessEmpty ==
    /\ dbRes = DBCalled("Add", <<>>, <<1>>, "key required")
    /\ users = UsersInit

\* C18 witness, third case: an Add with a username one byte too long has been
\* refused.
C18_WitnessTooLong ==
    /\ dbRes = DBCalled("Add", TooLong, <<1>>, "invalid username")
    /\ users = UsersInit

\* C19: IsValid never panics; it answers false whenever the username is nil,
\* empty or too long or the key is absent, whatever the bucket holds; and it
\* answers false for a well-formed username that was never added.
C19_IsValidFalseOnBadInput ==
    /\ "IsValid" \notin panics
    /\ dbRes.op = "IsValid" =>
         /\ dbRes.ret \in {"true", "false"}
         /\ InvalidUsername(dbRes.u) \/ dbRes.k = NilBytes => dbRes.ret = "false"
         /\ dbRes.u \notin DOMAIN lastAdd => dbRes.ret = "false"

\* C19 witness: IsValid has answered false for a registered username asked
\* about without a key.
C19_Witness ==
    /\ dbRes = DBCalled("IsValid", <<1>>, NilBytes, "false")
    /\ <<1>> \in DOMAIN users

\* C19 witness, second case: IsValid has answered false for a well-formed
\* username that is not in a bucket that holds another user.
C19_WitnessUnknown ==
    /\ dbRes = DBCalled("IsValid", Full, <<1>>, "false")
    /\ Full \notin DOMAIN users /\ <<1>> \in DOMAIN users

\* the step is a New on a file whose stored version is there but is not the
\* expected byte
NewOnIncompatible ==
    /\ dbRes'.op = "New"
    /\ store.meta /\ store.version \notin {NilBytes, versionValue}

\* C20: a New on a file whose stored version is not the single expected
\* byte (another byte, or any other length, zero included) returns an error
\* and no handle, does not panic, and leaves the file and the `users` bucket
\* as they were.
C20_IncompatibleVersionRejected ==
    [][NewOnIncompatible =>
         /\ dbRes'.ret = "error"
         /\ userDB' = "unset"
         /\ "New" \notin panics'
         /\ store' = store /\ users' = users]_vars

\* the step is a New on a file that was created before (both buckets are
\* there) and holds no version
NewOnExistingWithoutVersion ==
    /\ dbRes'.op = "New"
    /\ store.meta /\ store.usersBkt /\ store.version = NilBytes

\* C21: a New on an existing file without a version returns an error and no
\* handle, and writes no version into the file; the version is written only
\* into a file that had no `metadata` bucket.
C21_MissingVersionRejected ==
    [][(NewOnExistingWithoutVersion =>
            /\ dbRes'.ret = "error"
            /\ userDB' = "unset"
            /\ store' = store)
       /\ (store'.version # store.version => ~store.meta)]_vars

\* C22: when the comparison of a stored key with a presented key returns, it
\* has gone through every byte of the keys, whether they are equal or differ
\* and wherever they differ, and it returns 1 exactly when they are equal.
C22_ComparisonConstantTime ==
    cmp.done =>
        /\ cmp.i = KeySize
        /\ cmp.ret = ConstantTimeCompare(cmp.x, cmp.y)
        /\ cmp.ret = 1 <=> cmp.x = cmp.y

\* C22 witness: two keys that differ in their first byte and agree in the
\* rest have been compared; the comparison returned 0.
C22_Witness ==
    /\ cmp.done /\ cmp.ret = 0
    /\ cmp.x[1] # cmp.y[1]
    /\ \A j \in 2..KeySize : cmp.x[j] = cmp.y[j]

\* the step is a Get: a call has been recorded and no queue has grown
GetStep ==
    /\ got'.called
    /\ \A n \in Names : Len(spoolQ'[n]) <= Len(spoolQ[n])

\* C23: a Get with advance removes exactly the head of the user's queue,
\* a Get without advance leaves the queue as it is, no Get touches another
\* user's queue, and the entry returned is the head of the queue as the Get
\* leaves it, nothing when that queue is empty.
C23_GetDequeuesThenPeeks ==
    [][GetStep =>
         LET u == got'.user
             old == spoolQ[u]
             new == spoolQ'[u]
         IN /\ new = IF got'.advance /\ old # <<>> THEN Tail(old) ELSE old
            /\ \A n \in Names \ {u} : spoolQ'[n] = spoolQ[n]
            /\ IF new = <<>>
               THEN got'.msg = NilBytes /\ got'.surbID = NilBytes
               ELSE got'.msg = new[1].msg /\ got'.surbID = new[1].surbID]_vars

\* C23 witness: a Get with advance has removed a message and returned the
\* SURB reply behind it, which is now the head.
C23_Witness ==
    /\ got.called /\ got.advance /\ got.user = <<1>>
    /\ got.msg = <<2>> /\ got.surbID = <<1>>
    /\ spoolQ[<<1>>] = <<[surbID |-> <<1>>, msg |-> <<2>>]>>

\* C24 as stated: a Get with advance on a queue that holds exactly one
\* stored message returns that message.
C24_RoundTripWithAdvance ==
    [][/\ GetStep /\ got'.advance
       /\ Len(spoolQ[got'.user]) = 1
       /\ spoolQ[got'.user][1].surbID = NilBytes
       => got'.msg = spoolQ[got'.user][1].msg]_vars

\* C24, amended: after StoreMessage(user, m) on an empty queue a Get without
\* advance would return m; a Get without advance returns the head and keeps
\* it; a Get with advance removes the head and returns the entry behind it,
\* nothing when none remains.
C24_RoundTripWithPeek ==
    [][/\ \A u \in SpoolUsers :
            spoolQ[u] = <<>> /\ Len(spoolQ'[u]) = 1 =>
                /\ Get(spoolQ', u, FALSE).msg = spoolQ'[u][1].msg
                /\ Get(spoolQ', u, FALSE).spoolQ = spoolQ'
                /\ Get(spoolQ', u, TRUE).msg = NilBytes
       /\ GetStep =>
            LET old == spoolQ[got'.user]
            IN /\ ~got'.advance /\ old # <<>> =>
                    got'.msg = old[1].msg /\ spoolQ' = spoolQ
               /\ got'.advance /\ Len(old) = 1 =>
                    got'.msg = NilBytes /\ spoolQ'[got'.user] = <<>>
               /\ got'.advance /\ Len(old) >= 2 =>
                    got'.msg = old[2].msg /\ spoolQ'[got'.user] = Tail(old)]_vars

\* C24 witness: after one StoreMessage on the empty queue, a Get without
\* advance has returned the message, which is still in the queue.
C24_Witness ==
    /\ got = [called |-> TRUE, user |-> <<1>>, advance |-> FALSE,
              msg |-> <<2>>, surbID |-> NilBytes]
    /\ spoolQ[<<1>>] = <<[surbID |-> NilBytes, msg |-> <<2>>]>>

\* the store call made for packet id failed
StoreFailed(id) == \E i \in DOMAIN calls : calls[i].pkt = id /\ ~calls[i].ok

\* the step is a dispatch whose spool call failed
FailingDispatch ==
    /\ Len(calls') = Len(calls) + 1
    /\ ~calls'[Len(calls')].ok

\* C25: a dispatch whose store call fails stores nothing, schedules nothing,
\* does not put the packet back in the queue and does not panic, and takes
\* the worker to the dispose of that packet; the dispose takes the worker
\* back to the select; the store is called once per packet, never again for
\* a packet whose store failed; and as long as halt has not been signalled
\* the worker is running whatever stores have failed.
C25_StoreFailureNotFatal ==
    [][/\ FailingDispatch =>
            /\ workerPc' = "dispose" /\ pkt' = pkt
            /\ spoolQ' = spoolQ /\ sched' = sched /\ chQ' = chQ
            /\ panics' = panics /\ wg' = wg
       /\ workerPc = "dispose" /\ workerPc' # "dispose" =>
            /\ workerPc' = "select"
            /\ disposed'[pkt] = 1
       /\ \A id \in DOMAIN pkts : StoreFailed(id) =>
            /\ Len(SelectSeq(calls', LAMBDA c : c.pkt = id)) = 1
            /\ id \notin Range(chQ')
       /\ haltCh' = "open" => workerPc' \in {"select"} \cup HoldingPcs]_vars

\* C25 witness: the store of the first packet failed, the packet was
\* disposed and nothing of it is in the spool; the second packet was then
\* dispatched, stored and disposed.
C25_Witness ==
    /\ Len(pkts) = 2 /\ Len(calls) = 2
    /\ calls[1].pkt = 1 /\ ~calls[1].ok
    /\ calls[2].pkt = 2 /\ calls[2].ok
    /\ disposed[1] = 1 /\ disposed[2] = 1
    /\ Len(spoolQ[<<1>>]) = 1

\* a user message whose block is well formed and flagged has-SURB, with a
\* SURB the collaborator rejects
AckFailing(p) ==
    /\ UserMessage(p, 1)
    /\ NewPacketFromSURB(SURBOf(p), ackPayload).err

\* C26: the dispatch of a user message whose SURB is rejected hands nothing
\* to the scheduler: its store step leaves the ciphertext at the end of the
\* recipient's queue when the store succeeded and goes on to the ack, and
\* the step in which the ack fails finds that ciphertext stored, changes
\* neither the spool nor the scheduler's input, does not panic and takes
\* the worker to the dispose of the packet, from where it returns to the
\* select; and no step ever removes an entry from the spool.
C26_AckFailureKeepsMessage ==
    [][/\ /\ workerPc = "store" /\ workerPc' # "store"
          /\ AckFailing(pkts[pkt])
          => LET n == TrimRight(pkts[pkt].recipient)
             IN /\ sched' = sched
                /\ Len(calls') = Len(calls) + 1
                /\ spoolQ'[n] = IF calls'[Len(calls')].ok
                                THEN Append(spoolQ[n],
                                            [surbID |-> NilBytes,
                                             msg |-> Ciphertext(pkts[pkt])])
                                ELSE spoolQ[n]
                /\ workerPc' = IF calls'[Len(calls')].ok THEN "ack" ELSE "dispose"
                /\ pkt' = pkt
                /\ panics' = panics
       /\ /\ workerPc = "ack" /\ workerPc' # "ack"
          /\ AckFailing(pkts[pkt])
          => LET n == TrimRight(pkts[pkt].recipient)
             IN /\ sched' = sched /\ calls' = calls /\ spoolQ' = spoolQ
                /\ calls # <<>> /\ calls[Len(calls)].pkt = pkt /\ calls[Len(calls)].ok
                /\ spoolQ[n] # <<>>
                /\ spoolQ[n][Len(spoolQ[n])] =
                       [surbID |-> NilBytes, msg |-> Ciphertext(pkts[pkt])]
                /\ workerPc' = "dispose" /\ pkt' = pkt
                /\ panics' = panics
       /\ workerPc = "send" => ~AckFailing(pkts[pkt])
       /\ \A n \in Names :
            /\ Len(spoolQ'[n]) >= Len(spoolQ[n])
            /\ SubSeq(spoolQ'[n], 1, Len(spoolQ[n])) = spoolQ[n]
       /\ workerPc = "dispose" /\ workerPc' = "select" => disposed'[pkt] = 1]_vars

\* C26 witness: the first packet's SURB was rejected after its ciphertext
\* had been stored; it has been disposed, its message is still the head of
\* the queue, no ack exists, and the worker has dispatched the second packet.
C26_Witness ==
    /\ Len(pkts) = 2
    /\ AckFailing(pkts[1])
    /\ calls # <<>> /\ calls[1].pkt = 1 /\ calls[1].ok
    /\ disposed[1] = 1
    /\ spoolQ[<<1>>] # <<>>
    /\ spoolQ[<<1>>][1] = [surbID |-> NilBytes, msg |-> Ciphertext(pkts[1])]
    /\ UnknownRecipient(pkts[2]) /\ Dispatched(2)
    /\ sched = <<>>

\* C27: whatever the scheduler has been handed for a packet is one ack
\* with exactly two commands, first the next-hop command naming the SURB's
\* first hop, then the delay command with the packet's node delay; it has
\* the packet's receipt time and delay and the raw packet built from the
\* SURB, and is marked must-forward; and the only dispose calls are the
\* one of the packet itself.
C27_AckContents ==
    \A id \in DOMAIN pkts :
        Dispatched(id) /\ sched # <<>> =>
            LET p == pkts[id]
                r == NewPacketFromSURB(SURBOf(p), ackPayload)
            IN /\ Len(sched) = 1
               /\ UserMessage(p, 1) /\ ~r.err
               /\ Len(sched[1].cmds) = 2
               /\ sched[1].cmds[1] = [cmd |-> "NextNodeHop", id |-> r.firstHop]
               /\ sched[1].cmds[2] = [cmd |-> "NodeDelay", delay |-> p.nodeDelay]
               /\ sched[1].recvAt = p.recvAt
               /\ sched[1].delay = p.delay
               /\ sched[1].raw = r.raw
               /\ sched[1].mustForward
               /\ \A j \in PacketIds : disposed[j] = IF j = id /\ workerPc = "select" THEN 1 ELSE 0

\* C27 witness: an ack for a packet with the smallest node delay is with
\* the scheduler and the packet has been disposed.
C27_Witness ==
    \E id \in DOMAIN pkts :
        /\ pkts[id].nodeDelay = 1
        /\ disposed[id] = 1
        /\ Len(sched) = 1
        /\ sched[1].cmds[2] = [cmd |-> "NodeDelay", delay |-> 1]
        /\ sched[1].mustForward

\* C28: a call of IsValid or Add with arguments of valid length on an open
\* handle whose `users` bucket is missing panics: it returns no answer and
\* no error, and it writes nothing.
C28_MissingBucketAborts ==
    [][/\ ~store.usersBkt /\ userDB = "open"
       /\ dbRes'.op \in {"IsValid", "Add"}
       /\ ValidLength(dbRes'.u, dbRes'.k)
       => /\ dbRes'.ret = "panic"
          /\ dbRes'.op \in panics'
          /\ users' = users /\ store' = store]_vars

\* C28 witness: Add for a new user of valid length has panicked on a handle
\* whose bucket is missing.
C28_Witness ==
    /\ dbRes = DBCalled("Add", Full, <<2>>, "panic")
    /\ ~store.usersBkt /\ userDB = "open"
    /\ "Add" \in panics

\* C28 witness, second case: IsValid has panicked on a handle whose bucket
\* is missing.
C28_WitnessIsValid ==
    /\ dbRes = DBCalled("IsValid", <<1>>, <<1>>, "panic")
    /\ ~store.usersBkt /\ userDB = "open"
    /\ "IsValid" \in panics

\* what the load may install from a file: the bytes of its first block, when
\* the block carries the expected tag and nothing follows it
Installs(n, file, k) ==
    LET d == Decode(file.items)
    IN /\ file.readable /\ d.blk.pem /\ d.rest = <<>>
       /\ d.blk.Type = keyType(n) /\ k = d.blk.Bytes

\* C29: loading a key from a file that exists either installs the key of the
\* single, correctly tagged block or returns an error; it never faults and it
\* leaves the file as it is.
C29_LoadInstallsOrFails ==
    [][\A n \in KeyNames :
         (keyFile[n].exists /\ keyRes[n] = "none" /\ keyRes'[n] # "none")
         => /\ keyRes'[n] \in {"ok", "error"}
            /\ panics' = panics
            /\ keyFile'[n] = keyFile[n]
            /\ (keyRes'[n] = "ok" => Installs(n, keyFile[n], nodeKey'[n]))]_vars

\* C30: Server.halt calls the provider's halt after the listeners and the
\* Sphinx workers have been halted and before the scheduler is; from that
\* call on no authenticateClient and no onPacket call starts, and the
\* scheduler is handed packets only while it has not been halted.
C30_ProviderHaltedBetween ==
    [][/\ (srv.inProvider
           => /\ {"listeners", "cryptoWorkers"} \subseteq srv.halted
              /\ ("scheduler" \in srv.halted => "provider" \in srv.halted))
       /\ (srv.inProvider
           => /\ pkts' = pkts /\ ("onPacket" \in panics' => "onPacket" \in panics)
              /\ \A a \in AuthCallers : authPc[a] = "idle" => authPc'[a] = "idle")
       /\ (sched' # sched => "scheduler" \notin srv.halted)]_vars

\* C30 witness: the provider's halt has closed haltCh and waits for the
\* worker, the listeners and the Sphinx workers are halted, the scheduler is
\* not, and the worker has handed the scheduler an acknowledgement since
\* the halt was called.
C30_Witness ==
    /\ srv.inProvider /\ haltPc[1] = "wait" /\ haltCh = "closed"
    /\ {"listeners", "cryptoWorkers"} \subseteq srv.halted
    /\ "scheduler" \notin srv.halted
    /\ Len(sched) > srv.schedAt

\* C30 witness, second case: the scheduler has been halted after the
\* provider's halt returned.
C30_WitnessSchedulerHalted ==
    /\ "scheduler" \in srv.halted /\ "provider" \in srv.halted
    /\ haltPc[1] = "returned"

\* C31: when New fails after the deferred cleanup is installed, the halt
\* sequence runs once, halts only what was constructed and does not fault
\* on a component that was never created; New then returns its error.
C31_FailedNewCleansUp ==
    /\ "Server.halt" \notin panics
    /\ srv.con.halts <= 1
    /\ srv.halted \subseteq (srv.con.built \cup {"top"})
    /\ (srv.con.pc = "failed" => srv.halted = (srv.con.built \ {"inboundPackets"}) \cup {"top"})

\* C32: an onPacket call made while halt is in progress or after it has
\* completed does not fault: the submitter never panics, whatever the state
\* of the work queue.
C32_SubmitNeverFaults ==
    (haltCh = "closed") => "onPacket" \notin panics

====
